---------------------------- MODULE MC_Upstream ----------------------------
(* The relay to one upstream, for TLC: its circuit breaker and its pool of   *)
(* connections.  They share no state, so a behaviour exercises one of them:  *)
(* part, chosen initially, says which, and the variables of the other keep   *)
(* their initial value.                                                      *)
EXTENDS OProxyBreaker, TLC

CONSTANTS Worker, Fd, NoFd, MaxIdle, MaxRequests

VARIABLES part, idle_fds, relay_pc, fd, req, relayed, asked, open, inbox, due, eof

poolVars == <<idle_fds, relay_pc, fd, req, relayed, asked, open, inbox, due, eof>>

Pool == INSTANCE OProxyPool WITH pc <- relay_pc

ASSUME UpstreamAssumption == Pool!FdAssumption /\ Pool!PoolAssumption

UpstreamInit == part \in {"breaker", "pool"} /\ Init /\ Pool!Init

BreakerMoves == part = "breaker" /\ Next /\ UNCHANGED <<part, poolVars>>
PoolMoves    == part = "pool" /\ Pool!Next /\ UNCHANGED <<part, vars>>

UpstreamSpec == UpstreamInit /\ [][BreakerMoves \/ PoolMoves]_<<part, vars, poolVars>>

Symmetry == Permutations(Caller)

-----------------------------------------------------------------------------
(* Properties, with those of OProxyBreaker                                 *)

\* Every open descriptor is in the pool once or used by one relay; what a relay
\* passes on answers its own request, and a relay that reports success has
\* passed on the whole framed response (oproxy.c)
RelaySound == Pool!TypeOK /\ Pool!OneOwner /\ Pool!OwnResponse /\ Pool!OkIsComplete
=============================================================================
