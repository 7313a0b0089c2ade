----------------------------- MODULE MCSseReplay -----------------------------
(* Few things at once: a generation holds two frames, and of a new           *)
(* generation, a broken connection or failed load, a question and its frames *)
(* there are three together.                                                 *)
EXTENDS SseReplay

Few ==
  Len(log) + faults + (buffer.generation - FirstGeneration)
    + Cardinality({q \in Questions : question[q] # "unasked"}) <= 3
=============================================================================
