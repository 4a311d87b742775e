-------------------------------- MODULE BootList --------------------------------
(***************************************************************************)
(* What the configuration pointer block promises: the boot order is one    *)
(* list, and every change of it is atomic and durable, whatever happens to *)
(* power. cand holds the lists a restart may come back with: one after a   *)
(* call that succeeded, the old and the new one while a call runs or after *)
(* it failed, and no promise at all ({}) while a table that was reported   *)
(* as corrupted is being replaced.                                         *)
(***************************************************************************)
EXTENDS Naturals, Sequences

CONSTANTS Parts, MaxLen

VARIABLES cand, backup, refused

vars == <<cand, backup, refused>>

Lists == UNION {[1..n -> Parts] : n \in 0..MaxLen}

\* l without its first p.
Without(l, p) ==
    IF \A i \in DOMAIN l : l[i] # p THEN l
    ELSE LET i == CHOOSE i \in DOMAIN l : l[i] = p /\ \A j \in 1..(i - 1) : l[j] # p
         IN  SubSeq(l, 1, i - 1) \o SubSeq(l, i + 1, Len(l))

\* What a call may make of the list v: one partition more or less, none, or the backup.
Changes(v) ==
    {Append(v, p) : p \in Parts} \cup {Without(v, p) : p \in Parts} \cup {<<>>, backup}

\* A call begins to change one of the lists there may be.
Change ==
    /\ ~refused
    /\ \E v \in cand : \E new \in Changes(v) :
         /\ Len(new) <= MaxLen
         /\ cand' = cand \cup {new}
    /\ UNCHANGED <<backup, refused>>

\* The call, or the restart after it was cut short, settles on one of them.
Settle ==
    \E v \in cand :
        /\ cand' = {v}
        /\ refused' = FALSE
        /\ UNCHANGED backup

\* The library stops serving the list, or serves it again after a restart.
Refuse == refused' = ~refused /\ UNCHANGED <<cand, backup>>

\* A corrupted table is being replaced: no promise until it is.
Void == refused /\ cand' = {} /\ UNCHANGED <<backup, refused>>
Replaced == cand = {} /\ (\E v \in Lists : cand' = {v}) /\ refused' = FALSE /\ UNCHANGED backup

Save == \E v \in cand : ~refused /\ backup' = v /\ UNCHANGED <<cand, refused>>

Init ==
    /\ cand = {<<>>} \/ \E p \in Parts : cand = {<<p>>}
    /\ backup = <<>>
    /\ refused = FALSE

Next == Change \/ Settle \/ Refuse \/ Void \/ Replaced \/ Save

Spec == Init /\ [][Next]_vars
================================================================================
