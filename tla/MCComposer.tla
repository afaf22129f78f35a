------------------------------- MODULE MCComposer -------------------------------
\* Instances of Composer for TLC.
EXTENDS Composer, TLC

Budget(notes, texts, clicks, toggles, loads, ends, opens, faults) ==
  [notes |-> notes, texts |-> texts, clicks |-> clicks, toggles |-> toggles, loads |-> loads,
   ends |-> ends, opens |-> opens, faults |-> faults]

\* Two submissions that overlap or are retried; annotations across two reloads; a retry of an
\* ended session; two submissions across a reload; a Send & end undone by a re-open.
Cases == {Budget(1, 1, 2, 1, 0, 0, 1, 1), Budget(2, 0, 1, 1, 2, 0, 0, 0),
          Budget(1, 0, 2, 1, 0, 1, 0, 1), Budget(1, 0, 2, 1, 1, 0, 0, 0),
          Budget(0, 1, 2, 0, 0, 1, 1, 1)}
==============================================================================
