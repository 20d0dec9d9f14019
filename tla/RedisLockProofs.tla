--------------------------- MODULE RedisLockProofs ---------------------------
(* What RedisLock guarantees for all clients, keys, lease times and deadlines. *)
EXTENDS RedisLock, TLAPS

-----------------------------------------------------------------------------
(* Types *)

\* A call that has sent a SET has made a token.
TokenMade == \A c \in Clients : pc[c] \in Inside \cup {"setting"} => attempt[c] >= 1

TypeInv == TypeOK /\ TokenMade

LEMMA TokenTyped ==
  ASSUME TypeInv, NEW c \in Clients, pc[c] \in Inside \cup {"setting"}
  PROVE  Token(c) \in Tokens
BY RedisLockAssumption DEF TypeInv, TypeOK, TokenMade, Token, Tokens

LEMMA TypeInvKept == TypeInv /\ [Next]_vars => TypeInv'
<1> SUFFICES ASSUME TypeInv, [Next]_vars
             PROVE  TypeInv'
  OBVIOUS
<1> USE RedisLockAssumption DEF TypeOK, States, Waiting, Inside, Terminal, Goto
<1>1. CASE UNCHANGED vars
  BY <1>1 DEF vars, TypeInv, TokenMade
<1>2. ASSUME NEW c \in Clients, Call(c) \/ StartAttempt(c)
      PROVE  TypeInv'
  BY <1>2 DEF Call, StartAttempt, TypeInv, TokenMade
<1>3. ASSUME NEW c \in Clients,
             GiveUp(c) \/ SetBusy(c) \/ SetError(c) \/ FinishCallback(c)
      PROVE  TypeInv'
  BY <1>3 DEF GiveUp, SetBusy, AfterNil, SetError, FinishCallback, TypeInv, TokenMade
<1>4. ASSUME NEW c \in Clients, SetOk(c) \/ SetReplyLost(c)
      PROVE  TypeInv'
  <2>1. Token(c) \in Tokens
    BY <1>4, TokenTyped DEF SetOk, SetReplyLost
  <2>2. store' \in [Keys -> Entry]
    BY <1>4, <2>1 DEF SetOk, SetReplyLost, SetNX, Entry, TypeInv
  <2>3. CASE SetOk(c)
    BY <2>2, <2>3 DEF SetOk, TypeInv, TokenMade
  <2>4. CASE SetReplyLost(c)
    BY <2>2, <2>4 DEF SetReplyLost, AfterNil, TypeInv, TokenMade
  <2> QED
    BY <1>4, <2>3, <2>4
<1>5. ASSUME NEW c \in Clients, Release(c) \/ ReleaseError(c) \/ Crash(c)
      PROVE  TypeInv'
  <2>1. store' \in [Keys -> Entry]
    BY <1>5 DEF Release, ReleaseError, Crash, Released, Free, Entry, TypeInv
  <2> QED
    BY <1>5, <2>1 DEF Release, ReleaseError, Crash, TypeInv, TokenMade
<1>6. CASE Tick
  <2>1. \A e \in Entry : Aged(e) \in Entry
    BY DEF Entry, Aged, Free, Sooner
  <2>2. store' \in [Keys -> Entry]
    BY <1>6, <2>1 DEF Tick, TypeInv
  <2>3. leaseLeft' \in [Clients -> 0..TtlMs] /\ waited' \in [Clients -> 0..TimeoutMs]
    BY <1>6 DEF Tick, Sooner, Later, TypeInv
  <2> QED
    BY <1>6, <2>2, <2>3 DEF Tick, TypeInv, TokenMade
<1> QED
  BY <1>1, <1>2, <1>3, <1>4, <1>5, <1>6 DEF Next, WaiterStep

LEMMA TypeInvariant == Spec => []TypeInv
<1>1. Init => TypeInv
  BY RedisLockAssumption
     DEF Init, TypeInv, TypeOK, TokenMade, Entry, Free, States, Inside
<1> QED
  BY <1>1, TypeInvKept, PTL DEF Spec

\* The variables always have the types of the Redis values and of the locals
\* of RedisLockService.
THEOREM TypeCorrect == Spec => []TypeOK
<1>1. TypeInv => TypeOK
  BY DEF TypeInv
<1> QED
  BY <1>1, TypeInvariant, PTL

-----------------------------------------------------------------------------
(* A lease that has not run out protects its holder *)

LEMMA TokensDiffer == \A c, d \in Clients : c # d => Token(c) # Token(d)
BY DEF Token

LEMMA LeaseKept ==
  ASSUME TypeInv, LeaseProtectsHolder, [Next]_vars
  PROVE  LeaseProtectsHolder'
<1> USE DEF TypeInv, TypeOK, Goto, Inside, Free
\* Steps that touch neither Redis nor a holder.
<1>1. ASSUME store' = store, leaseLeft' = leaseLeft, key' = key,
             \A d \in Clients : pc'[d] \in Inside
                => pc[d] \in Inside /\ attempt'[d] = attempt[d]
      PROVE  LeaseProtectsHolder'
  BY <1>1 DEF LeaseProtectsHolder, Token
<1>2. CASE UNCHANGED vars
  BY <1>1, <1>2 DEF vars
<1>3. ASSUME NEW c \in Clients,
             \/ Call(c) \/ StartAttempt(c) \/ GiveUp(c) \/ SetBusy(c) \/ SetError(c)
             \/ FinishCallback(c) \/ ReleaseError(c) \/ Crash(c)
      PROVE  LeaseProtectsHolder'
  BY <1>1, <1>3 DEF Call, StartAttempt, GiveUp, SetBusy, AfterNil, SetError,
                    FinishCallback, ReleaseError, Crash
<1>4. ASSUME NEW c \in Clients, SetOk(c) \/ SetReplyLost(c)
      PROVE  LeaseProtectsHolder'
  <2> SUFFICES ASSUME NEW d \in Clients, pc'[d] \in Inside, leaseLeft'[d] > 0
               PROVE  store'[key[d]] = [token |-> Token(d), ttl |-> leaseLeft'[d]]
    BY <1>4 DEF LeaseProtectsHolder, SetOk, SetReplyLost, Token
  <2>1. CASE d = c
    BY <1>4, <2>1 DEF SetOk, SetReplyLost, SetNX, AfterNil
  <2>2. CASE d # c
    <3>1. pc[d] \in Inside /\ leaseLeft'[d] = leaseLeft[d] /\ leaseLeft[d] > 0
      BY <1>4, <2>2 DEF SetOk, SetReplyLost
    <3>2. store[key[d]] = [token |-> Token(d), ttl |-> leaseLeft[d]]
      BY <3>1 DEF LeaseProtectsHolder
    <3>3. store[key[c]].ttl = 0
      BY <1>4 DEF SetOk, SetReplyLost
    <3>4. key[d] # key[c]
      BY <3>1, <3>2, <3>3
    <3> QED
      BY <1>4, <3>1, <3>2, <3>4 DEF SetOk, SetReplyLost, SetNX
  <2> QED
    BY <2>1, <2>2
<1>5. ASSUME NEW c \in Clients, Release(c)
      PROVE  LeaseProtectsHolder'
  <2> SUFFICES ASSUME NEW d \in Clients, pc'[d] \in Inside, leaseLeft[d] > 0
               PROVE  store'[key[d]] = [token |-> Token(d), ttl |-> leaseLeft[d]]
    BY <1>5 DEF LeaseProtectsHolder, Release, Token
  <2>1. d # c /\ pc[d] \in Inside
    BY <1>5 DEF Release
  <2>2. store[key[d]] = [token |-> Token(d), ttl |-> leaseLeft[d]]
    BY <2>1 DEF LeaseProtectsHolder
  <2>3. store[key[d]].token # Token(c)
    BY <2>1, <2>2, TokensDiffer
  <2> QED
    BY <1>5, <2>2, <2>3 DEF Release, Released
<1>6. CASE Tick
  <2> SUFFICES ASSUME NEW d \in Clients, pc[d] \in Inside, leaseLeft'[d] > 0
               PROVE  store'[key[d]] = [token |-> Token(d), ttl |-> leaseLeft'[d]]
    BY <1>6 DEF LeaseProtectsHolder, Tick, Token
  <2>1. leaseLeft[d] > 1 /\ leaseLeft'[d] = leaseLeft[d] - 1
    BY <1>6, RedisLockAssumption DEF Tick, Sooner
  <2>2. store[key[d]] = [token |-> Token(d), ttl |-> leaseLeft[d]]
    BY <2>1, RedisLockAssumption DEF LeaseProtectsHolder
  <2>3. store'[key[d]] = Aged(store[key[d]])
    BY <1>6 DEF Tick
  <2> QED
    BY <2>1, <2>2, <2>3, RedisLockAssumption DEF Aged, Sooner
<1> QED
  BY <1>2, <1>3, <1>4, <1>5, <1>6 DEF Next, WaiterStep

\* As long as its lease lasts, a caller of execute or executeWithWait is the
\* only holder: whatever the other callers, late releases included, do.
THEOREM LeaseProtects == Spec => []LeaseProtectsHolder
<1>1. Init => LeaseProtectsHolder
  BY DEF Init, LeaseProtectsHolder, Inside
<1>2. TypeInv /\ LeaseProtectsHolder /\ [Next]_vars => LeaseProtectsHolder'
  BY LeaseKept
<1> QED
  BY <1>1, <1>2, TypeInvariant, PTL DEF Spec

-----------------------------------------------------------------------------
(* RedisLock implements the ILock contract *)

\* What a step of one call, on its own key, is in the contract.
LEMMA SetRefines ==
  ASSUME TypeInv, NEW c \in Clients, SetOk(c)
  PROVE  Contract!Grant(key[c], Token(c))
<1> USE DEF TypeInv, TypeOK, Goto, Inside
<1>1. OwnerOf[key[c]] = NoToken
  BY DEF SetOk, OwnerOf, Free
<1>2. OwnerOf' = [OwnerOf EXCEPT ![key[c]] = Token(c)]
  BY DEF SetOk, SetNX, OwnerOf
<1>3. Believers' = Believers \cup {<<key[c], Token(c)>>}
  <2>1. \A d \in Clients : Token(d)' = Token(d) /\ key'[d] = key[d]
    BY DEF SetOk, Token
  <2>2. \A d \in Clients : pc'[d] \in Inside <=> d = c \/ pc[d] \in Inside
    BY DEF SetOk
  <2> QED
    BY <2>1, <2>2 DEF Believers
<1> QED
  BY <1>1, <1>2, <1>3 DEF Contract!Grant

LEMMA SetUnheardRefines ==
  ASSUME TypeInv, NEW c \in Clients, SetReplyLost(c)
  PROVE  Contract!GrantUnheard(key[c], Token(c))
<1> USE DEF TypeInv, TypeOK, Goto, Inside
<1>1. OwnerOf[key[c]] = NoToken
  BY DEF SetReplyLost, OwnerOf, Free
<1>2. OwnerOf' = [OwnerOf EXCEPT ![key[c]] = Token(c)]
  BY DEF SetReplyLost, SetNX, OwnerOf
<1>3. Believers' = Believers
  <2>1. \A d \in Clients : Token(d)' = Token(d) /\ key'[d] = key[d]
    BY DEF SetReplyLost, Token
  <2>2. \A d \in Clients : pc'[d] \in Inside <=> pc[d] \in Inside
    BY DEF SetReplyLost, AfterNil
  <2> QED
    BY <2>1, <2>2 DEF Believers
<1> QED
  BY <1>1, <1>2, <1>3 DEF Contract!GrantUnheard

\* A call that stops being a holder takes only its own pair with it.
LEMMA LeavingRemovesOnePair ==
  ASSUME TypeInv, NEW c \in Clients, pc[c] \in Inside,
         NEW state \in States \ Inside, Goto(c, state), UNCHANGED <<key, attempt>>
  PROVE  /\ <<key[c], Token(c)>> \in Believers
         /\ Believers' = Believers \ {<<key[c], Token(c)>>}
<1> USE DEF TypeInv, TypeOK, Goto
<1>1. \A d \in Clients : Token(d)' = Token(d) /\ key'[d] = key[d]
  BY DEF Token
<1>2. \A d \in Clients : pc'[d] \in Inside <=> d # c /\ pc[d] \in Inside
  OBVIOUS
<1> QED
  BY <1>1, <1>2, TokensDiffer DEF Believers

LEMMA ReleaseRefines ==
  ASSUME TypeInv, NEW c \in Clients, Release(c)
  PROVE  Contract!GiveBack(key[c], Token(c))
<1>1. "done" \in States \ Inside /\ pc[c] \in Inside
  BY DEF Release, States, Terminal, Inside
<1>2. /\ <<key[c], Token(c)>> \in Believers
      /\ Believers' = Believers \ {<<key[c], Token(c)>>}
  BY <1>1, LeavingRemovesOnePair DEF Release
<1>3. OwnerOf' = [OwnerOf EXCEPT ![key[c]] =
                    IF OwnerOf[key[c]] = Token(c) THEN NoToken ELSE OwnerOf[key[c]]]
  BY DEF Release, Released, OwnerOf, Free, TypeInv, TypeOK
<1> QED
  BY <1>2, <1>3 DEF Contract!GiveBack

LEMMA LeavingRefines ==
  ASSUME TypeInv, NEW c \in Clients, ReleaseError(c) \/ Crash(c)
  PROVE  \/ UNCHANGED <<OwnerOf, Believers>>
         \/ Contract!Abandon({<<key[c], Token(c)>>})
<1>1. OwnerOf' = OwnerOf
  BY DEF ReleaseError, Crash, OwnerOf
<1>2. CASE pc[c] \in Inside
  <2>1. {"failed", "crashed"} \subseteq States \ Inside
    BY DEF States, Terminal, Inside
  <2>2. /\ <<key[c], Token(c)>> \in Believers
        /\ Believers' = Believers \ {<<key[c], Token(c)>>}
    BY <1>2, <2>1, LeavingRemovesOnePair DEF ReleaseError, Crash
  <2> QED
    BY <1>1, <2>2 DEF Contract!Abandon
<1>3. CASE pc[c] \notin Inside
  <2>1. \A d \in Clients : Token(d)' = Token(d) /\ key'[d] = key[d]
    BY DEF ReleaseError, Crash, Token
  <2>2. \A d \in Clients : pc'[d] \in Inside <=> pc[d] \in Inside
    BY <1>3 DEF ReleaseError, Crash, Goto, TypeInv, TypeOK, Inside
  <2> QED
    BY <1>1, <2>1, <2>2 DEF Believers
<1> QED
  BY <1>2, <1>3

\* The keys whose last tick has come lapse together.
LEMMA TickRefines ==
  ASSUME TypeInv, Tick
  PROVE  \/ UNCHANGED <<OwnerOf, Believers>>
         \/ \E K \in SUBSET Keys : Contract!Lapse(K)
<1> DEFINE K == {k \in Keys : store[k].ttl = 1 /\ OwnerOf[k] # NoToken}
<1>1. Believers' = Believers
  BY DEF Tick, Believers, Token
<1>2. OwnerOf' = [k \in Keys |-> IF k \in K THEN NoToken ELSE OwnerOf[k]]
  <2>1. \A k \in Keys : store'[k].token = IF k \in K THEN NoToken ELSE store[k].token
    BY DEF Tick, Aged, Sooner, Free, OwnerOf, TypeInv, TypeOK, Entry
  <2> QED
    BY <2>1 DEF OwnerOf
<1>3. CASE K = {}
  <2>1. OwnerOf = [k \in Keys |-> OwnerOf[k]]
    BY DEF OwnerOf
  <2> QED
    BY <1>1, <1>2, <1>3, <2>1
<1>4. CASE K # {}
  <2>1. \A k \in K : OwnerOf[k] # NoToken
    OBVIOUS
  <2>2. Contract!Lapse(K)
    BY <1>1, <1>2, <1>4, <2>1 DEF Contract!Lapse
  <2>3. K \in SUBSET Keys
    OBVIOUS
  <2> QED
    BY <2>2, <2>3
<1> QED
  BY <1>3, <1>4

\* RedisLockService keeps the ILock contract: a name passes from one owner to
\* the next only through the owner's own release or through its TTL, and a
\* release never takes a lock from somebody else.
THEOREM RedisLockImplementsContract == Spec => ImplementsLeaseLock
<1>1. Init => Contract!LeaseInit
  BY DEF Init, Contract!LeaseInit, OwnerOf, Believers, Free, Inside
<1>2. TypeInv /\ [Next]_vars => [Contract!LeaseNext]_(Contract!leaseVars)
  <2> SUFFICES ASSUME TypeInv, [Next]_vars
               PROVE  Contract!LeaseNext \/ UNCHANGED <<OwnerOf, Believers>>
    BY DEF Contract!leaseVars
  <2>1. CASE UNCHANGED vars
    BY <2>1 DEF vars, OwnerOf, Believers, Token
  <2>2. ASSUME NEW c \in Clients,
               \/ Call(c) \/ StartAttempt(c) \/ GiveUp(c) \/ SetBusy(c)
               \/ SetError(c) \/ FinishCallback(c)
        PROVE  UNCHANGED <<OwnerOf, Believers>>
    <3>1. store' = store /\ key' = key
      BY <2>2 DEF Call, StartAttempt, GiveUp, SetBusy, SetError, FinishCallback
    <3>2. \A d \in Clients :
            /\ pc'[d] \in Inside <=> pc[d] \in Inside
            /\ pc[d] \in Inside => attempt'[d] = attempt[d]
      BY <2>2 DEF Call, StartAttempt, GiveUp, SetBusy, AfterNil, SetError,
                  FinishCallback, Goto, TypeInv, TypeOK, Inside
    <3>3. \A d \in Clients : pc[d] \in Inside => Token(d)' = Token(d)
      BY <3>2 DEF Token
    <3>4. OwnerOf' = OwnerOf
      BY <3>1 DEF OwnerOf
    <3>5. Believers' = Believers
      <4>1. {d \in Clients : pc'[d] \in Inside} = {d \in Clients : pc[d] \in Inside}
        BY <3>2
      <4>2. \A d \in {e \in Clients : pc[e] \in Inside} :
                <<key'[d], Token(d)'>> = <<key[d], Token(d)>>
        BY <3>1, <3>3
      <4> QED
        BY <4>1, <4>2, Zenon DEF Believers
    <3> QED
      BY <3>4, <3>5
  <2>3. ASSUME NEW c \in Clients, SetOk(c) \/ SetReplyLost(c) \/ Release(c)
        PROVE  Contract!LeaseNext
    <3>1. key[c] \in Keys /\ Token(c) \in Tokens
      BY <2>3, TokenTyped DEF SetOk, SetReplyLost, Release, Inside, TypeInv, TypeOK
    <3> QED
      BY <2>3, <3>1, SetRefines, SetUnheardRefines, ReleaseRefines DEF Contract!LeaseNext
  <2>4. ASSUME NEW c \in Clients, ReleaseError(c) \/ Crash(c)
        PROVE  Contract!LeaseNext \/ UNCHANGED <<OwnerOf, Believers>>
    <3>1. CASE UNCHANGED <<OwnerOf, Believers>>
      BY <3>1
    <3>2. CASE Contract!Abandon({<<key[c], Token(c)>>})
      <4>1. {<<key[c], Token(c)>>} \in SUBSET Believers
        BY <3>2 DEF Contract!Abandon
      <4> QED
        BY <3>2, <4>1 DEF Contract!LeaseNext
    <3> QED
      BY <2>4, <3>1, <3>2, LeavingRefines
  <2>5. CASE Tick
    BY <2>5, TickRefines DEF Contract!LeaseNext
  <2> QED
    BY <2>1, <2>2, <2>3, <2>4, <2>5 DEF Next, WaiterStep
<1> QED
  BY <1>1, <1>2, TypeInvariant, PTL DEF Spec, ImplementsLeaseLock, Contract!LeaseSpec

=============================================================================
