------------------------------ MODULE SessionMC ------------------------------
(***************************************************************************)
(* SessionProtocol for TLC.  Proposals and long streams of observations    *)
(* multiply each other's states: where there are proposals, the numbers go *)
(* to ShortStream only.                                                    *)
(***************************************************************************)
EXTENDS SessionProtocol

CONSTANT ShortStream   \* bound: largest number where there are proposals

ShortWithProposals ==
    proposals_store' # <<>> =>
        sequence_number' <= ShortStream /\ validator'.last_sequence_number <= ShortStream
=============================================================================
