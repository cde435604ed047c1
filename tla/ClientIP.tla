------------------------------ MODULE ClientIP ------------------------------
(***************************************************************************)
(* The client address of a request (internal/clientip/clientip.go).        *)
(*                                                                         *)
(* An address is a string; NoIP is what does not parse as one.  A request  *)
(* has any number of X-Forwarded-For lines; a line is the list of its hops *)
(* (split at the commas), <<>> when it is empty.  trusted is the union of  *)
(* the trusted_proxies CIDRs.                                              *)
(***************************************************************************)
EXTENDS Integers, Sequences, FiniteSetsExt

NoIP == "no address"

\* The walk over the hops from the right, which stops at the first hop that
\* does not parse or is not trusted; NoIP says that the peer is to be used.
Scan(hops, trusted) ==
  LET stops == {i \in DOMAIN hops : hops[i] = NoIP \/ hops[i] \notin trusted}
  IN  IF stops = {} THEN NoIP ELSE hops[Max(stops)]

\* Header.Get: the first line; the lines after it are not read.
Get(lines) == IF lines = <<>> THEN <<>> ELSE lines[1]

ResolveIP(peer, lines, trusted) ==
  LET hop == Scan(Get(lines), trusted)
  IN  IF peer = NoIP \/ peer \notin trusted \/ hop = NoIP THEN peer ELSE hop

(***************************************************************************)
(* What threat_model.md promises, told without the walk: address a is      *)
(* vouched for when it is the peer's own, or when a trusted peer and only  *)
(* trusted hops after it, in its line and in the lines after, passed it on.*)
(***************************************************************************)
Vouched(a, peer, lines, trusted) ==
  \/ a = peer
  \/ /\ peer \in trusted
     /\ \E l \in DOMAIN lines : \E i \in DOMAIN lines[l] :
          /\ lines[l][i] = a
          /\ \A j \in i+1..Len(lines[l]) : lines[l][j] \in trusted
          /\ \A m \in l+1..Len(lines) : Range(lines[m]) \subseteq trusted
=============================================================================
