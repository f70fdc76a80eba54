----------------------------- MODULE Attachment ------------------------------
(* What the Telegram collector promises of each attachment, to the owner and   *)
(* to the reader that serves files: it is kept only with its file, a file is   *)
(* taken away only if it is not kept or no longer what it was, and a transfer  *)
(* has a bounded number of attempts, which start anew only with another file   *)
(* or after a loss.  Passes, batches, queues and repairs are not in it; they   *)
(* may do any number of these things in one step.                              *)
EXTENDS Naturals

CONSTANTS
    Messages,
    Files, None,    \* attachments, and no attachment or file
    Broken,         \* a file that is no attachment
    Attempts        \* attempts that make a transfer failed

VARIABLES
    row,        \* of each message: the attachment it should have, how far its
                \* transfer is, and the attempts that have failed
    held,       \* what the directory holds for it
    acts        \* acts of the world outside, so far

vars == <<row, held, acts>>

Rows == [want : Files \cup {None}, tries : 0..Attempts,
         state : {"none", "open", "placed", "kept", "failed"}]

Init ==
    /\ row = [m \in Messages |-> [want |-> None, state |-> "none", tries |-> 0]]
    /\ held = [m \in Messages |-> None]
    /\ acts = 0

Becomes(m, state, tries) == row'[m] = [want |-> row[m].want, state |-> state, tries |-> tries]

HeldKept(m) == held'[m] = held[m]

\* It is collected, replaced by another one, or no longer wanted.
Renew(m) ==
    /\ row[m].state # "placed" /\ row'[m].want # row[m].want
    /\ row'[m].tries = 0
    /\ row'[m].state = IF row'[m].want = None THEN "none" ELSE "open"
    /\ HeldKept(m)

\* The file is in the directory and the row does not say so yet.
Place(m) ==
    /\ row[m].state = "open"
    /\ held'[m] = row[m].want
    /\ Becomes(m, "placed", row[m].tries)

Keep(m) ==
    /\ row[m].state = "placed"
    /\ Becomes(m, "kept", row[m].tries)
    /\ HeldKept(m)

\* The process dies before the row says so: the attempt does not count.
Drop(m) ==
    /\ row[m].state = "placed"
    /\ Becomes(m, "open", row[m].tries)
    /\ HeldKept(m)

Fail(m) ==
    /\ row[m].state \in {"open", "placed"}
    /\ LET tries == row[m].tries + 1 IN
          Becomes(m, IF tries = Attempts THEN "failed" ELSE "open", tries)
    /\ HeldKept(m)

\* The loss is noticed.
Lose(m) ==
    /\ row[m].state = "kept" /\ held[m] # row[m].want
    /\ Becomes(m, "open", 0)
    /\ HeldKept(m)

Remove(m) ==
    /\ row[m].state # "placed"
    /\ row[m].state = "kept" => held[m] # row[m].want
    /\ held'[m] = None
    /\ row'[m] = row[m]

Life(m) ==
    \/ row'[m] = row[m] /\ HeldKept(m)
    \/ Renew(m) \/ Place(m) \/ Keep(m) \/ Drop(m) \/ Fail(m) \/ Lose(m) \/ Remove(m)

\* Somebody else spoils a file.
Damage(m) ==
    /\ held[m] \in Files
    /\ \E spoilt \in {None, Broken} : held' = [held EXCEPT ![m] = spoilt]
    /\ acts' = acts + 1
    /\ UNCHANGED row

Next ==
    \/ /\ acts' >= acts
       /\ row' \in [Messages -> Rows]
       /\ held' \in [Messages -> Files \cup {None, Broken}]
       /\ \A m \in Messages : Life(m)
    \/ \E m \in Messages : Damage(m)

Spec == Init /\ [][Next]_vars
=============================================================================
