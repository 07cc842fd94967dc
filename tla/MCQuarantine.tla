---------------------------- MODULE MCQuarantine ----------------------------
(* Small instances of Quarantine.                                           *)
EXTENDS Quarantine

CONSTANTS shell, page, alias

AliasOfShell == [l \in {alias} |-> shell]
=============================================================================
