------------------------------ MODULE RedisLock ------------------------------
(***************************************************************************)
(* The lease that companySaveLock.ts, chromaIndexLock.ts and               *)
(* pipelineAutoRunLock.ts keep in Redis: one string key per lock, written  *)
(* with SET NX PX and holding the random token of its owner.  A value of   *)
(* this module is what Redis stores under one key.  Time is counted in     *)
(* ticks; a key whose remaining life reaches 0 is gone.                    *)
(***************************************************************************)
EXTENDS Naturals

CONSTANT NoToken    \* what GET returns for an absent key

\* tokens: what randomUUID() can return, one for each use of the lock.
LeaseType(tokens, ttl) == [owner : tokens \cup {NoToken}, left : 0 .. ttl]

Absent == [owner |-> NoToken, left |-> 0]

\* GET key
Get(lease) == lease.owner

IsFree(lease) == Get(lease) = NoToken

\* SET key token NX PX ttl, in the case where NX lets it through.
Granted(token, ttl) == [owner |-> token, left |-> ttl]

\* PEXPIRE key ttl: a new life for the token stored there, no-op when absent.
Renewed(lease, ttl) ==
  IF IsFree(lease) THEN lease ELSE [lease EXCEPT !.left = ttl]

\* One tick of Redis' clock.
Aged(lease) ==
  IF lease.left > 1 THEN [lease EXCEPT !.left = lease.left - 1] ELSE Absent
=============================================================================
