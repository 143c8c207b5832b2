----------------------------- MODULE AdapterStages -----------------------------
(***************************************************************************)
(* The vocabulary in which the read operations of internal/gcp are written  *)
(* down. An operation is the sequence of the calls it makes to Google       *)
(* Cloud, and what matters of a call to those who read the answer is what   *)
(* becomes of what it could not fetch: the operation fails, or answers and  *)
(* says what is missing, or answers and says nothing.                       *)
(***************************************************************************)
EXTENDS Integers, Sequences

(* What a call can meet: everything is there; the call fails; it stops at a *)
(* budget or leaves pages behind; its client was never opened.              *)
Outcome == {"whole", "failed", "cut", "absent"}

(* What the operation makes of it: nothing is lost; it panics; it returns   *)
(* an error; it returns an empty answer at once; it goes on and says so in  *)
(* its answer (Errors, Warnings, Truncated, a page token); it goes on and   *)
(* says nothing.                                                            *)
Effect == {"none", "panic", "fail", "empty", "told", "silent"}

(* client: the field of gcpAdapter. absent, failed, cut: the effect of each *)
(* outcome; a call that reads one thing, or everything, cannot be cut.      *)
(* asked: if it is not 0, this call and the asked - 1 after it are made     *)
(* only for some arguments. kept: what comes of the call is kept for the    *)
(* operations after this one, which do not make it again. absentSkips and   *)
(* failedSkips: how many of the calls after it are not made after this      *)
(* outcome.                                                                 *)
Call(client) ==
  [client |-> client, absent |-> "panic", failed |-> "fail", cut |-> "none",
   asked |-> 0, kept |-> FALSE, absentSkips |-> 0, failedSkips |-> 0]

IfAbsent(call, effect) == [call EXCEPT !.absent = effect]
IfFailed(call, effect) == [call EXCEPT !.failed = effect]
IfCut(call, effect)    == [call EXCEPT !.cut = effect]

Paged(call)     == IfCut(call, "told")
Guarded(client) == IfAbsent(Call(client), "fail")
OrEmpty(client) == IfAbsent(Call(client), "empty")
Noted(client)   == IfFailed(IfAbsent(Call(client), "told"), "told")
Kept(call)      == [call EXCEPT !.kept = TRUE]

EffectOf(call, outcome) ==
  CASE outcome = "whole"  -> "none"
    [] outcome = "failed" -> call.failed
    [] outcome = "cut"    -> call.cut
    [] outcome = "absent" -> call.absent

Skipped(call, outcome) ==
  CASE outcome = "failed" -> call.failedSkips
    [] outcome = "absent" -> call.absentSkips
    [] OTHER              -> 0

(* What a call can meet when these clients are open.                        *)
Outcomes(call, open) ==
  IF call.client \notin open THEN {"absent"}
  ELSE {"whole", "failed"} \cup (IF call.cut = "none" THEN {} ELSE {"cut"})

(* An operation that calls another one: failure is what it makes of the     *)
(* other's error, gaps of what the other's answer says is missing.          *)
Through(op, failure, gaps) ==
  LET Passed(effect) == CASE effect = "fail"  -> failure
                          [] effect = "empty" -> "silent"
                          [] effect = "told"  -> gaps
                          [] OTHER            -> effect
      Ends(effect) == effect \in {"fail", "empty"}
  IN  [i \in DOMAIN op |->
        [op[i] EXCEPT
           !.absent = Passed(@), !.failed = Passed(@), !.cut = Passed(@),
           !.absentSkips = IF Ends(op[i].absent) THEN Len(op) - i ELSE @,
           !.failedSkips = IF Ends(op[i].failed) THEN Len(op) - i ELSE @]]

(* The forms of Through that occur.                                         *)
Trusting(op)   == Through(op, "told", "told")   \* passes both on
Reporting(op)  == Through(op, "told", "silent") \* notes the error, reads no flag
Requiring(op)  == Through(op, "fail", "told")
Assuming(op)   == Through(op, "fail", "silent")
Overlooking(op) == Through(op, "silent", "silent")

(* An optional part of an operation.                                        *)
WhenAsked(op) == [op EXCEPT ![1].asked = Len(op)]
=============================================================================
