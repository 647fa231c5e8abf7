----------------------------- MODULE MCKvEvents -----------------------------
(* Small instances of KvEvents for TLC.                                    *)
EXTENDS KvEvents
=============================================================================
