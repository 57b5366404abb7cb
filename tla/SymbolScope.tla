------------------------------ MODULE SymbolScope ------------------------------
(***************************************************************************)
(* What symbol resolution promises, whatever tables it uses.  The linked   *)
(* binaries declare definitions in link order; once the first reference is *)
(* bound no definition can be declared any more; and a key is bound to its *)
(* first definition, or to 0, the dynamic loader, if it has none.          *)
(***************************************************************************)
EXTENDS Integers

CONSTANTS Keys, NBins

VARIABLES
    scope,   \* set of <<key, binary>>: the definitions declared so far
    bound    \* set of <<key, binary or 0>>: the references bound so far

Init == scope = {} /\ bound = {}

Declare(k, b) ==
    /\ bound = {}
    /\ \A d \in scope : d[2] <= b
    /\ scope' = scope \cup {<<k, b>>}
    /\ UNCHANGED bound

Definers(k) == {b \in 1..NBins : <<k, b>> \in scope}

First(k) == IF Definers(k) = {} THEN 0
            ELSE CHOOSE b \in Definers(k) : \A c \in Definers(k) : b <= c

Bind(k) ==
    /\ bound' = bound \cup {<<k, First(k)>>}
    /\ UNCHANGED scope

Next == \E k \in Keys : Bind(k) \/ \E b \in 1..NBins : Declare(k, b)

vars == <<scope, bound>>

Spec == Init /\ [][Next]_vars
=============================================================================
