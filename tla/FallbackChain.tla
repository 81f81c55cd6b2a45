---------------------------- MODULE FallbackChain ----------------------------
(***************************************************************************)
(* The candidates that TaskScheduler.dispatch() tries for a placement      *)
(* decision, and their order.                                              *)
(***************************************************************************)
EXTENDS Naturals, Sequences, Functions

\* Fault: a fallback node equal to the chosen one is tried again.
Chain_Repeats(d) == <<d.chosen_node>> \o d.fallback_chain

\* A node that is not in the chain yet goes to its end.
Extended(chain, n) == IF n \in Range(chain) THEN chain ELSE Append(chain, n)

\* The chosen node, which every decision names, then the fallback nodes in turn.
Chain(d) ==
    LET chain[i \in 0..Len(d.fallback_chain)] ==
          IF i = 0 THEN <<d.chosen_node>> ELSE Extended(chain[i - 1], d.fallback_chain[i])
    IN  chain[Len(d.fallback_chain)]
=============================================================================
