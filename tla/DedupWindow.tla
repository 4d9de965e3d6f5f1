---------------------------- MODULE DedupWindow ----------------------------
(***************************************************************************)
(* What the audit router promises callers that take turns: of the payloads *)
(* it lets through it remembers the last Window ones, in order; it drops a *)
(* payload if, and only if, it remembers it.  Once two of them have raced  *)
(* it promises nothing more, until it is restarted.                        *)
(***************************************************************************)
EXTENDS Naturals, Sequences

CONSTANTS Payloads, Window

VARIABLES
  recent,      \* the payloads let through, oldest first
  suppressed,  \* the payloads dropped
  raced        \* two callers have raced

vars == <<recent, suppressed, raced>>

Remembered(p) == \E j \in DOMAIN recent : recent[j] = p

Init == recent = <<>> /\ suppressed = {} /\ raced = FALSE

LetThrough(p) ==
  /\ ~raced
  /\ ~Remembered(p)
  /\ recent' = Append(IF Len(recent) = Window THEN Tail(recent) ELSE recent, p)
  /\ UNCHANGED <<suppressed, raced>>

Drop(p) ==
  /\ ~raced
  /\ Remembered(p)
  /\ suppressed' = suppressed \cup {p}
  /\ UNCHANGED <<recent, raced>>

Race == recent' = <<>> /\ suppressed' = {} /\ raced' = TRUE

\* A new process remembers nothing.
Forget == recent' = <<>> /\ suppressed' = {} /\ raced' = FALSE

Next == (\E p \in Payloads : LetThrough(p) \/ Drop(p)) \/ Race \/ Forget

Spec == Init /\ [][Next]_vars
=============================================================================
