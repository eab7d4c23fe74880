------------------------- MODULE MCTerminationSlices -------------------------
(* The memory model on a small instance. *)
EXTENDS TerminationSlices, TLC

\* The workers run the same code, and pods are alike.
MemSymmetry == Permutations(Workers) \cup Permutations(PodNames)

\* Where an object lies makes no difference, only who has it; nor does memory
\* that nobody uses.
Name(o) == <<o = cached, {w \in Workers : frame[w].read = o},
             {w \in Workers : frame[w].copy = o}>>
InUse ==
    <<server, {Name(o) : o \in Live \cap latest},
      [w \in Workers |-> <<frame[w].pc, frame[w].todo>>],
      {<<Name(o), Name(object[o].array), object[o].len, array[o],
         IF object[o].replicas \in Workers
         THEN object[o].replicas ELSE Name(object[o].replicas),
         cell[object[o].replicas]>> : o \in Live},
      {<<w, cell[w]>> : w \in {v \in Workers : frame[v].pc # "idle"}}>>
=============================================================================
