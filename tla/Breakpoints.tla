---------------------------- MODULE Breakpoints ----------------------------
(***************************************************************************)
(* What tools/gdbstub.c needs of its breakpoint map: a set of addresses    *)
(* that grows by the one that is set and shrinks by the one that is        *)
(* deleted.                                                                *)
(***************************************************************************)
CONSTANT Addr

VARIABLES bps,    \* the addresses at which cont stops
          request \* the debugger's last request

Init == bps = {} /\ request = <<>>

Set(a) == request' = <<"set", a>> /\ bps' = bps \cup {a}
Del(a) == request' = <<"del", a>> /\ bps' = bps \ {a}

Next == \E a \in Addr : Set(a) \/ Del(a)

Spec == Init /\ [][Next]_<<bps, request>>
=============================================================================
