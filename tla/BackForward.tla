---------------------------- MODULE BackForward -----------------------------
(***************************************************************************)
(* What a history of visited surfaces promises: a current surface, those   *)
(* behind it and those ahead of it.  A visit forgets what was ahead; back  *)
(* and forward only move along what was visited.                           *)
(***************************************************************************)
EXTENDS Sequences, Naturals

CONSTANTS Surfaces, Start

VARIABLES past, now, future

hvars == <<past, now, future>>

HistoryInit == past = <<>> /\ now = Start /\ future = <<>>

Visit == \E s \in Surfaces \ {now} :
           /\ past' = Append(past, now) /\ now' = s /\ future' = <<>>

GoBack == /\ past # <<>>
          /\ now' = past[Len(past)] /\ past' = SubSeq(past, 1, Len(past) - 1)
          /\ future' = <<now>> \o future

GoForward == /\ future # <<>>
             /\ now' = Head(future) /\ future' = Tail(future)
             /\ past' = Append(past, now)

HistorySpec == HistoryInit /\ [][Visit \/ GoBack \/ GoForward]_hvars
=============================================================================
