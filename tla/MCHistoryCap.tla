----------------------------- MODULE MCHistoryCap -----------------------------
(***************************************************************************)
(* Conversations of up to MaxMessages messages over an alphabet with cheap *)
(* and dear messages, calls whose identifier may be used again and answered*)
(* again, and explicit as well as derived budgets.                         *)
(***************************************************************************)
EXTENDS HistoryCap

CONSTANTS a, none

MCCallIds == {a}

Says(role, size) == [role |-> role, size |-> size, calls |-> {}, answers |-> none, envelope |-> FALSE]

MCAlphabet ==
    { Says("system", 1),
      Says("user", 1),
      [Says("user", 3) EXCEPT !.envelope = TRUE],
      Says("assistant", 2),
      [Says("assistant", 1) EXCEPT !.calls = {a}],
      [Says("tool", 1) EXCEPT !.answers = a] }

\* An explicit budget of 2, and windows that leave 3 and nothing.
MCSettings ==
    { [override |-> 2, window |-> 0, generation |-> 0, resolved |-> TRUE],
      [override |-> 0, window |-> 0, generation |-> 2, resolved |-> TRUE],
      [override |-> 0, window |-> 4, generation |-> 0, resolved |-> TRUE] }
=============================================================================
