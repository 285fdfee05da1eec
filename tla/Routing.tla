------------------------------- MODULE Routing -------------------------------
(***************************************************************************)
(* What the function left under the entry's name promises its callers: a   *)
(* call whose sequence arguments all have width n reaches the clone for n  *)
(* if there is one, any other call reaches the generic function, and every *)
(* call is answered.                                                       *)
(***************************************************************************)
EXTENDS Naturals

CONSTANT
  Widths      \* widths a caller may pass

VARIABLES
  arguments,  \* the sequence arguments of the entry
  lengths,    \* the lengths that have a clone
  widths,     \* the call in progress: its widths, or NoCall
  callee      \* the function that call has reached, or NoCallee

vars == <<arguments, lengths, widths, callee>>

Generic   == <<"generic">>
Static(n) == <<"static", n>>
NoCall    == <<>>
NoCallee  == <<"none">>

AllEqual(w, n) == \A a \in arguments : w[a] = n

CalleeFor(w) == IF \E n \in lengths : AllEqual(w, n)
                  THEN Static(CHOOSE n \in lengths : AllEqual(w, n))
                  ELSE Generic

Invoke == /\ widths = NoCall
          /\ widths' \in [arguments -> Widths]
          /\ UNCHANGED <<arguments, lengths, callee>>

Route == /\ widths # NoCall
         /\ callee = NoCallee
         /\ callee' = CalleeFor(widths)
         /\ UNCHANGED <<arguments, lengths, widths>>

Return == /\ callee # NoCallee
          /\ widths' = NoCall
          /\ callee' = NoCallee
          /\ UNCHANGED <<arguments, lengths>>

Init == /\ arguments \in (SUBSET (Nat \ {0})) \ {{}}
        /\ lengths \in SUBSET (Nat \ {0})
        /\ widths = NoCall
        /\ callee = NoCallee

Next == Invoke \/ Route \/ Return

Spec == Init /\ [][Next]_vars /\ WF_vars(Route) /\ WF_vars(Return)

=============================================================================
