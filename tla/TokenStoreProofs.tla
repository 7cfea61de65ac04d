-------------------------- MODULE TokenStoreProofs --------------------------
(***************************************************************************)
(* Theorems about TokenStore, for any number of threads, tokens and logins.*)
(***************************************************************************)
EXTENDS TokenStore, TLAPS

Holding == {"redeem", "open", "write", "deliver"}

(* The initial state has the types.                                        *)
LEMMA TypeInit == Init => TypeOK
<1> SUFFICES ASSUME Init PROVE TypeOK
  OBVIOUS
<1> USE StoreAssumption DEF Init
<1>1. up \in BOOLEAN /\ first \in BOOLEAN /\ orphaned \in SUBSET redeemed
  OBVIOUS
<1>2. mu \in Threads \cup {Nobody}
  OBVIOUS
<1>3. file \in (1 .. issued) \cup {Missing, Torn}
  OBVIOUS
<1>4. cachedToken \in 0 .. issued /\ logins \in Nat /\ verifier \in 0 .. logins
  OBVIOUS
<1>5. answers \in SUBSET (1 .. logins) /\ issued \in 0 .. MaxTokens
  OBVIOUS
<1>6. redeemed \in SUBSET (1 .. issued) /\ settled \in SUBSET (1 .. issued)
  OBVIOUS
<1>7. \A h \in Threads : pc[h] \in {"read", "redeem"} => mu = h
  OBVIOUS
<1>8. \A h \in Threads : pc[h] \in Holding => tok[h] # 0
  BY DEF Holding
<1> QED
  BY <1>1, <1>2, <1>3, <1>4, <1>5, <1>6, <1>7, <1>8 DEF TypeOK, Holding

(* The types of what a thread has, after a step of thread h that changes   *)
(* nothing else: if it stops being a reader it need not hold mu.           *)
LEMMA TypeThread ==
  ASSUME TypeOK, NEW h \in Threads, NEW next, NEW t \in 0 .. issued',
         next \in {"idle", "read", "redeem", "open", "write", "deliver"},
         pc' = [pc EXCEPT ![h] = next], tok' = [tok EXCEPT ![h] = t],
         issued' \in Nat, issued =< issued',
         mu' = mu \/ (mu' = h /\ mu = Nobody) \/ (mu' = Nobody /\ mu = h),
         next \in {"read", "redeem"} => mu' = h,
         next \in Holding => t # 0
  PROVE  /\ mu' \in Threads \cup {Nobody}
         /\ pc' \in [Threads ->
              {"idle", "read", "redeem", "open", "write", "deliver"}]
         /\ tok' \in [Threads -> 0 .. issued']
         /\ \A g \in Threads : pc'[g] \in {"read", "redeem"} => mu' = g
         /\ \A g \in Threads :
              pc'[g] \in {"redeem", "open", "write", "deliver"} => tok'[g] # 0
<1> USE DEF TypeOK
<1>1. mu' \in Threads \cup {Nobody}
  OBVIOUS
<1>2. pc' \in [Threads ->
        {"idle", "read", "redeem", "open", "write", "deliver"}]
  OBVIOUS
<1>3. tok' \in [Threads -> 0 .. issued']
  OBVIOUS
<1>4. ASSUME NEW g \in Threads, pc'[g] \in {"read", "redeem"}
      PROVE  mu' = g
  <2>1. CASE g = h
    BY <1>4, <2>1
  <2>2. CASE g # h
    <3>1. mu = g
      BY <1>4, <2>2
    <3> QED
      BY <2>2, <3>1, StoreAssumption
  <2> QED
    BY <2>1, <2>2
<1>5. ASSUME NEW g \in Threads,
             pc'[g] \in {"redeem", "open", "write", "deliver"}
      PROVE  tok'[g] # 0
  BY <1>5 DEF Holding
<1> QED
  BY <1>1, <1>2, <1>3, <1>4, <1>5

(* The types of what threads share.                                        *)
Shared ==
  /\ up \in BOOLEAN /\ first \in BOOLEAN /\ orphaned \in SUBSET redeemed
  /\ file \in (1 .. issued) \cup {Missing, Torn}
  /\ cachedToken \in 0 .. issued
  /\ logins \in Nat /\ verifier \in 0 .. logins
  /\ answers \in SUBSET (1 .. logins)
  /\ issued \in 0 .. MaxTokens
  /\ age \in [Token -> {"fresh", "near", "expired"}]
  /\ redeemed \in SUBSET (1 .. issued)
  /\ settled \in SUBSET (1 .. issued)

(* Issuing a token keeps the types, whatever mu does.                      *)
LEMMA TypeIssue ==
  ASSUME TypeOK, NEW h \in Threads, Issue(h), pc[h] \in {"idle", "redeem"},
         mu' = mu,
         UNCHANGED <<up, file, cachedToken, verifier, logins, settled>>,
         answers' \in SUBSET (1 .. logins),
         redeemed' \in SUBSET (1 .. issued'), orphaned' \in SUBSET redeemed'
  PROVE  TypeOK'
<1> USE StoreAssumption DEF TypeOK, Issue
<1>1. /\ issued' \in 0 .. MaxTokens /\ issued' = issued + 1
      /\ tok' = [tok EXCEPT ![h] = issued'] /\ issued' # 0
  OBVIOUS
<1>2. pc' = [pc EXCEPT ![h] = "open"]
  BY DEF Goto
<1>3. /\ mu' \in Threads \cup {Nobody}
      /\ pc' \in [Threads ->
           {"idle", "read", "redeem", "open", "write", "deliver"}]
      /\ tok' \in [Threads -> 0 .. issued']
      /\ \A g \in Threads : pc'[g] \in {"read", "redeem"} => mu' = g
      /\ \A g \in Threads :
           pc'[g] \in {"redeem", "open", "write", "deliver"} => tok'[g] # 0
  <2> HIDE DEF Issue
  <2> QED
    BY <1>1, <1>2, TypeThread
<1>4. age' \in [Token -> {"fresh", "near", "expired"}]
  BY DEF Token
<1>5. file' \in (1 .. issued') \cup {Missing, Torn}
  BY <1>1
<1>6. /\ cachedToken' \in 0 .. issued' /\ settled' \in SUBSET (1 .. issued')
  BY <1>1
<1>7. up' \in BOOLEAN /\ first' \in BOOLEAN
  BY Zenon
<1>8. logins' \in Nat /\ verifier' \in 0 .. logins'
  OBVIOUS
<1>9. answers' \in SUBSET (1 .. logins')
  OBVIOUS
<1> HIDE DEF TypeOK, Issue
<1> QED
  BY <1>1, <1>3, <1>4, <1>5, <1>6, <1>7, <1>8, <1>9 DEF TypeOK

(* The steps of a thread that issue no token keep the types.               *)
LEMMA TypeNoIssue ==
  ASSUME TypeOK, NEW h \in Threads, NEW next, NEW t \in 0 .. issued,
         next \in {"idle", "read", "redeem", "open", "write", "deliver"},
         pc' = [pc EXCEPT ![h] = next], tok' = [tok EXCEPT ![h] = t],
         mu' = mu \/ (mu' = h /\ mu = Nobody) \/ (mu' = Nobody /\ mu = h),
         next \in {"read", "redeem"} => mu' = h,
         next \in Holding => t # 0,
         UNCHANGED <<up, verifier, logins, issued, age>>,
         first' \in BOOLEAN, redeemed' \in SUBSET (1 .. issued),
         orphaned' \in SUBSET redeemed',
         answers' \in SUBSET (1 .. logins),
         file' \in (1 .. issued) \cup {Missing, Torn},
         cachedToken' \in 0 .. issued,
         settled' \in SUBSET (1 .. issued)
  PROVE  TypeOK'
<1>1. issued' \in Nat /\ issued =< issued' /\ t \in 0 .. issued'
  BY StoreAssumption DEF TypeOK
<1>2. /\ mu' \in Threads \cup {Nobody}
      /\ pc' \in [Threads ->
           {"idle", "read", "redeem", "open", "write", "deliver"}]
      /\ tok' \in [Threads -> 0 .. issued']
      /\ \A g \in Threads : pc'[g] \in {"read", "redeem"} => mu' = g
      /\ \A g \in Threads :
           pc'[g] \in {"redeem", "open", "write", "deliver"} => tok'[g] # 0
  BY <1>1, TypeThread
<1>3. up' \in BOOLEAN /\ first' \in BOOLEAN
  BY Zenon DEF TypeOK
<1>4. Shared'
  <2>1. /\ logins' \in Nat /\ verifier' \in 0 .. logins'
        /\ answers' \in SUBSET (1 .. logins') /\ issued' \in 0 .. MaxTokens
    BY DEF TypeOK
  <2>2. /\ age' \in [Token -> {"fresh", "near", "expired"}]
        /\ redeemed' \in SUBSET (1 .. issued')
        /\ settled' \in SUBSET (1 .. issued')
    BY DEF TypeOK
  <2> QED
    BY <1>3, <2>1, <2>2 DEF Shared
<1> QED
  BY <1>2, <1>4 DEF Shared, TypeOK

(* The steps of a thread keep the types.                                   *)
LEMMA TypeStep ==
  ASSUME TypeOK, NEW h \in Threads, Step(h)
  PROVE  TypeOK'
<1>a. /\ pc[h] \in {"idle", "read", "redeem", "open", "write", "deliver"}
      /\ tok[h] \in 0 .. issued /\ tok = [tok EXCEPT ![h] = tok[h]]
      /\ pc = [pc EXCEPT ![h] = pc[h]]
      /\ pc[h] \in {"read", "redeem"} => mu = h
      /\ pc[h] \in Holding => tok[h] # 0
  BY DEF TypeOK, Holding
<1>b. first \in BOOLEAN
  BY DEF TypeOK
<1>c. /\ answers \in SUBSET (1 .. logins)
      /\ file \in (1 .. issued) \cup {Missing, Torn}
      /\ cachedToken \in 0 .. issued /\ settled \in SUBSET (1 .. issued)
      /\ 0 \in 0 .. issued /\ Nobody # h
      /\ redeemed \in SUBSET (1 .. issued) /\ orphaned \in SUBSET redeemed
  BY StoreAssumption DEF TypeOK
<1>d. ASSUME Unlock(h)
      PROVE  mu' = mu \/ (mu' = h /\ mu = Nobody) \/ (mu' = Nobody /\ mu = h)
  BY <1>d DEF Unlock
<1>e. ASSUME Leave(h)
      PROVE  /\ pc' = [pc EXCEPT ![h] = "idle"]
             /\ tok' = [tok EXCEPT ![h] = 0] /\ "idle" \notin Holding
  BY <1>e DEF Leave, Goto, Holding
<1>f. ASSUME Leave(h) \/ UNCHANGED first
      PROVE  first' \in BOOLEAN
  BY <1>b, <1>f, Zenon DEF Leave
<1>1. CASE Lock(h)
  <2>1. /\ pc' = [pc EXCEPT ![h] = "read"] /\ tok' = [tok EXCEPT ![h] = tok[h]]
        /\ mu' = h /\ mu = Nobody /\ "read" \notin Holding
        /\ UNCHANGED <<up, verifier, logins, issued, age, redeemed, first,
                       orphaned, answers, file, cachedToken, settled>>
    BY <1>1, <1>a DEF Lock, Goto, Holding, loginVars, providerVars
  <2>2. first' \in BOOLEAN
    BY <1>b, <2>1, Zenon
  <2> QED
    BY <1>a, <1>c, <2>1, <2>2, TypeNoIssue
<1>2. CASE ReadToken(h)
  <2>1. /\ UNCHANGED <<up, verifier, logins, issued, age, redeemed,
                       orphaned, answers, file, cachedToken, settled>>
        /\ mu = h
    BY <1>2, <1>a DEF ReadToken, loginVars, providerVars
  <2>2. first' \in BOOLEAN
    BY <1>2, <1>b, <1>f, <2>1, Zenon DEF ReadToken, Take
  <2>3. CASE Unlock(h) /\ Leave(h)
    BY <1>c, <1>d, <1>e, <2>1, <2>2, <2>3, TypeNoIssue
  <2>4. ASSUME NEW next \in {"redeem", "deliver"}, file \in Token, Take(h, next),
               Unlock(h) \/ UNCHANGED mu, next = "redeem" => UNCHANGED mu
        PROVE  TypeOK'
    <3>1. file \in 0 .. issued /\ file # 0
      BY <1>c, <2>4, StoreAssumption DEF Token, TypeOK
    <3>2. pc' = [pc EXCEPT ![h] = next] /\ tok' = [tok EXCEPT ![h] = file]
      BY <2>4 DEF Take, Goto
    <3>3. mu' = mu \/ (mu' = h /\ mu = Nobody) \/ (mu' = Nobody /\ mu = h)
      BY <1>d, <2>4
    <3>4. next \in {"read", "redeem"} => mu' = h
      BY <2>1, <2>4
    <3> QED
      BY <1>c, <2>1, <2>2, <3>1, <3>2, <3>3, <3>4, TypeNoIssue
  <2> QED
    BY <1>2, <2>3, <2>4 DEF ReadToken
<1>3. CASE Redeem(h)
  <2>1. /\ pc[h] = "redeem"
        /\ UNCHANGED <<up, verifier, logins, answers, file, cachedToken,
                       settled>>
    BY <1>3 DEF Redeem, loginVars
  <2>2. tok[h] \in 1 .. issued
    BY <1>a, <2>1, StoreAssumption DEF Holding, TypeOK
  <2>3. CASE /\ Issue(h) /\ redeemed' = redeemed \cup {tok[h]}
             /\ UNCHANGED <<mu, orphaned>>
    <3>0. issued \in Nat /\ issued' = issued + 1
      BY <2>3, StoreAssumption DEF Issue, TypeOK
    <3>1. redeemed' \in SUBSET (1 .. issued')
      <4> SUFFICES ASSUME NEW t \in redeemed' PROVE t \in 1 .. issued'
        OBVIOUS
      <4>1. t \in 1 .. issued
        BY <1>c, <2>2, <2>3
      <4> QED
        BY <3>0, <4>1
    <3>2. orphaned' \in SUBSET redeemed'
      BY <1>c, <2>3
    <3> QED
      BY <1>c, <2>1, <2>3, <3>1, <3>2, TypeIssue
  <2>4. CASE /\ Unlock(h) /\ Leave(h) /\ UNCHANGED <<issued, age>>
             /\ \/ UNCHANGED <<redeemed, orphaned>>
                \/ /\ redeemed' = redeemed \cup {tok[h]}
                   /\ orphaned' = orphaned \cup {tok[h]}
    <3>1. first' \in BOOLEAN
      BY <1>f, <2>4
    <3>2. redeemed' \in SUBSET (1 .. issued) /\ orphaned' \in SUBSET redeemed'
      BY <1>c, <2>2, <2>4
    <3> QED
      BY <1>c, <1>d, <1>e, <2>1, <2>4, <3>1, <3>2, TypeNoIssue
  <2> QED
    BY <1>3, <2>3, <2>4 DEF Redeem, providerVars
<1>4. CASE ExchangeToken(h)
  <2>1. /\ pc[h] = "idle" /\ answers' \in SUBSET (1 .. logins)
        /\ UNCHANGED <<up, mu, file, cachedToken, verifier, logins,
                       redeemed, settled, orphaned>>
    BY <1>4, <1>c DEF ExchangeToken
  <2>2. CASE Issue(h)
    <3>1. redeemed' \in SUBSET (1 .. issued')
      BY <2>1, <2>2 DEF Issue, TypeOK
    <3>2. orphaned' \in SUBSET redeemed'
      BY <1>c, <2>1
    <3> QED
      BY <2>1, <2>2, <3>1, <3>2, TypeIssue
  <2>3. CASE UNCHANGED <<threadVars, issued, age, first>>
    <3>1. first' \in BOOLEAN
      BY <1>b, <2>1, <2>3, Zenon
    <3>2. /\ pc' = [pc EXCEPT ![h] = pc[h]] /\ tok' = [tok EXCEPT ![h] = tok[h]]
          /\ pc[h] \notin Holding /\ pc[h] \notin {"read", "redeem"}
      BY <1>a, <2>1, <2>3 DEF threadVars, Holding
    <3> QED
      BY <1>a, <1>c, <2>1, <2>3, <3>1, <3>2, TypeNoIssue
  <2> QED
    BY <1>4, <2>2, <2>3 DEF ExchangeToken
<1>5. ASSUME NEW next \in {"write", "deliver"}, pc[h] \in {"open", "write"},
             Goto(h, next), Unlock(h) \/ UNCHANGED mu,
             UNCHANGED <<tok, first, up, cachedToken, loginVars, providerVars,
                         settled>>,
             file' \in (1 .. issued) \cup {Missing, Torn},
             Orphan(h) \/ UNCHANGED orphaned
      PROVE  TypeOK'
  <2>1. first' \in BOOLEAN /\ orphaned' \in SUBSET redeemed'
    BY <1>5, <1>b, <1>c DEF Orphan, providerVars
  <2>2. /\ pc' = [pc EXCEPT ![h] = next] /\ tok' = [tok EXCEPT ![h] = tok[h]]
        /\ next \notin {"read", "redeem"} /\ tok[h] # 0
    BY <1>5, <1>a DEF Goto, Holding
  <2>3. mu' = mu \/ (mu' = h /\ mu = Nobody) \/ (mu' = Nobody /\ mu = h)
    BY <1>5, <1>d
  <2>4. UNCHANGED <<up, verifier, logins, issued, age, redeemed, answers,
                    cachedToken, settled>>
    BY <1>5 DEF loginVars, providerVars
  <2> QED
    BY <1>5, <1>a, <1>c, <2>1, <2>2, <2>3, <2>4, TypeNoIssue
<1>6. CASE OpenFile(h)
  BY <1>5, <1>6, <1>c DEF OpenFile, Saved
<1>7. CASE WriteFile(h)
  <2>1. tok[h] \in 1 .. issued
    BY <1>7, <1>a DEF WriteFile, Holding
  <2>2. file' \in (1 .. issued) \cup {Missing, Torn}
    BY <1>7, <2>1 DEF WriteFile
  <2> QED
    BY <1>5, <1>7, <2>2 DEF WriteFile, Saved
<1>8. CASE renewAllLeases(h)
  <2>1. first' \in BOOLEAN
    BY <1>8, <1>b, <1>f, Zenon DEF renewAllLeases
  <2>2. /\ UNCHANGED <<up, mu, file, verifier, logins, answers, issued, age,
                       redeemed, orphaned>>
        /\ Leave(h)
    BY <1>8 DEF renewAllLeases, loginVars, providerVars
  <2>3. tok[h] \in 1 .. issued /\ tok[h] \in 0 .. issued
    BY <1>8, <1>a DEF renewAllLeases, Holding
  <2>4. cachedToken' \in 0 .. issued /\ settled' \in SUBSET (1 .. issued)
    BY <1>8, <1>c, <2>3 DEF renewAllLeases
  <2> QED
    BY <1>c, <1>e, <2>1, <2>2, <2>4, TypeNoIssue
<1> QED
  BY <1>1, <1>2, <1>3, <1>4, <1>6, <1>7, <1>8 DEF Step

(* Every step keeps the types.                                             *)
LEMMA TypeNext == TypeOK /\ [Next]_vars => TypeOK'
<1> SUFFICES ASSUME TypeOK, [Next]_vars PROVE TypeOK'
  OBVIOUS
<1>1. CASE UNCHANGED vars
  BY <1>1 DEF vars, loginVars, providerVars, threadVars, TypeOK
<1>2. CASE StartAgent
  BY <1>2 DEF StartAgent, loginVars, providerVars, threadVars, TypeOK
<1>3. CASE Kill
  <2>1. up' \in BOOLEAN /\ first' \in BOOLEAN
    BY <1>3, Zenon DEF Kill, TypeOK
  <2>2. /\ settled' \in SUBSET (1 .. issued') /\ cachedToken' \in 0 .. issued'
        /\ verifier' \in 0 .. logins' /\ mu' \in Threads \cup {Nobody}
    BY <1>3, StoreAssumption DEF Kill, TypeOK, providerVars
  <2>3. /\ pc' \in [Threads ->
              {"idle", "read", "redeem", "open", "write", "deliver"}]
        /\ tok' \in [Threads -> 0 .. issued']
        /\ \A h \in Threads : pc'[h] = "idle"
    BY <1>3, StoreAssumption DEF Kill, TypeOK, providerVars
  <2>4. /\ logins' \in Nat /\ answers' \in SUBSET (1 .. logins')
        /\ issued' \in 0 .. MaxTokens
        /\ file' \in (1 .. issued') \cup {Missing, Torn}
        /\ age' \in [Token -> {"fresh", "near", "expired"}]
        /\ redeemed' \in SUBSET (1 .. issued')
        /\ orphaned' \in SUBSET redeemed'
    BY <1>3 DEF Kill, TypeOK, providerVars
  <2> QED
    BY <2>1, <2>2, <2>3, <2>4 DEF TypeOK
<1>4. CASE BeginLogin
  <2>1. /\ logins' \in Nat /\ answers' \in SUBSET (1 .. logins')
        /\ verifier' \in 0 .. logins'
    BY <1>4 DEF BeginLogin, TypeOK
  <2> QED
    BY <1>4, <2>1 DEF BeginLogin, providerVars, threadVars, TypeOK
<1>5. ASSUME NEW t \in Token, Ages(t) PROVE TypeOK'
  BY <1>5 DEF Ages, loginVars, threadVars, TypeOK
<1> QED
  BY <1>1, <1>2, <1>3, <1>4, <1>5, TypeStep DEF Next

(* Types, and the discipline of the mutex: a thread that reads or redeems  *)
(* holds mu, and nobody goes on without a token.                           *)
THEOREM StoreTypeCorrect == Spec => []TypeOK
  BY TypeInit, TypeNext, PTL DEF Spec

(* Every token the agent received has been passed to the devices, was lost *)
(* with a process, or is in the hands of a thread that will pass it on.    *)
THEOREM TokensReachDevices == Spec => []TokensDelivered
<1>1. Init => TokensDelivered
  BY DEF Init, TokensDelivered
<1>2. TypeOK /\ TokensDelivered /\ [Next]_vars => TokensDelivered'
  <2> SUFFICES ASSUME TypeOK, TokensDelivered, [Next]_vars,
                      NEW t \in 1 .. issued'
               PROVE  \/ t \in settled'
                      \/ \E h \in Threads :
                           tok'[h] = t /\ pc'[h] \in {"open", "write", "deliver"}
    BY DEF TokensDelivered
  <2> USE StoreAssumption DEF TypeOK, Goto, Unlock, Leave, loginVars,
          providerVars, threadVars, TokensDelivered
  <2>1. CASE UNCHANGED vars
    BY <2>1 DEF vars
  <2>2. CASE StartAgent \/ BeginLogin
    BY <2>2 DEF StartAgent, BeginLogin
  <2>3. CASE Kill
    BY <2>3 DEF Kill
  <2>4. CASE \E s \in Token : Ages(s)
    BY <2>4 DEF Ages
  <2>5. ASSUME NEW h \in Threads, Lock(h) \/ ReadToken(h)
        PROVE  \/ t \in settled'
               \/ \E g \in Threads :
                    tok'[g] = t /\ pc'[g] \in {"open", "write", "deliver"}
    BY <2>5 DEF Lock, ReadToken, Take
  <2>6. ASSUME NEW h \in Threads, Redeem(h) \/ ExchangeToken(h)
        PROVE  \/ t \in settled'
               \/ \E g \in Threads :
                    tok'[g] = t /\ pc'[g] \in {"open", "write", "deliver"}
    BY <2>6 DEF Redeem, ExchangeToken, Issue
  <2>7. ASSUME NEW h \in Threads, OpenFile(h) \/ WriteFile(h)
        PROVE  \/ t \in settled'
               \/ \E g \in Threads :
                    tok'[g] = t /\ pc'[g] \in {"open", "write", "deliver"}
    BY <2>7 DEF OpenFile, WriteFile, Saved
  <2>8. ASSUME NEW h \in Threads, renewAllLeases(h)
        PROVE  \/ t \in settled'
               \/ \E g \in Threads :
                    tok'[g] = t /\ pc'[g] \in {"open", "write", "deliver"}
    BY <2>8 DEF renewAllLeases
  <2> QED
    BY <2>1, <2>2, <2>3, <2>4, <2>5, <2>6, <2>7, <2>8 DEF Next, Step
<1> QED
  BY <1>1, <1>2, StoreTypeCorrect, PTL DEF Spec

(* What keeps the token of the file usable: mu is held from the reading to *)
(* the writing of a refresh, a token that is about to be written is used by*)
(* no one else, and one that is used up is only in the file as long as the *)
(* holder of mu still has its successor to write, or if it is lost.        *)
Saving == {"open", "write"}

Held ==
  \A h \in Threads : mu = h => pc[h] \in {"read", "redeem", "open", "write"}

Unused ==
  \A h \in Threads :
    pc[h] \in Saving => (tok[h] \notin redeemed /\ tok[h] # file)

Apart ==
  \A h, g \in Threads :
    (h # g /\ pc[h] \in Saving /\ pc[g] \in {"redeem", "open", "write"})
      => tok[h] # tok[g]

Succeeded ==
  file \in redeemed \ orphaned
    => \E h \in Threads : mu = h /\ pc[h] \in Saving

Chain == Held /\ Unused /\ Apart /\ Succeeded

(* A step that leaves threads, file and provider alone keeps the chain.    *)
LEMMA ChainUnchanged ==
  ASSUME Chain, UNCHANGED <<mu, pc, tok, file, redeemed, orphaned>>
  PROVE  Chain'
  BY DEF Chain, Held, Unused, Apart, Succeeded

(* The steps of a thread keep the chain.                                   *)
LEMMA ChainStep ==
  ASSUME TypeOK, TypeOK', Chain, NEW h \in Threads, Step(h)
  PROVE  Chain'
<1>t. /\ pc \in [Threads ->
           {"idle", "read", "redeem", "open", "write", "deliver"}]
      /\ tok \in [Threads -> 0 .. issued]
      /\ mu \in Threads \cup {Nobody} /\ Nobody \notin Threads
      /\ file \in (1 .. issued) \cup {Missing, Torn}
      /\ redeemed \in SUBSET (1 .. issued)
      /\ Torn \notin Nat /\ issued \in Nat
      /\ \A g \in Threads : pc[g] \in {"read", "redeem"} => mu = g
      /\ \A g \in Threads :
           pc[g] \in {"redeem", "open", "write", "deliver"} => tok[g] # 0
  BY StoreAssumption DEF TypeOK
<1>c. Held /\ Unused /\ Apart /\ Succeeded
  BY DEF Chain
<1>n. Torn \notin redeemed /\ \A g \in Threads : tok[g] # Torn
  <2>1. \A t \in 0 .. issued : t \in Nat
    BY <1>t
  <2>2. \A t \in redeemed : t \in 0 .. issued
    BY <1>t
  <2>3. \A g \in Threads : tok[g] \in 0 .. issued
    BY <1>t
  <2>4. Torn \notin Nat
    BY <1>t
  <2> QED
    BY <2>1, <2>2, <2>3, <2>4, Zenon
<1>1. ASSUME NEW next \in {"idle", "read", "deliver"}, NEW t,
             pc' = [pc EXCEPT ![h] = next], tok' = [tok EXCEPT ![h] = t],
             pc[h] \notin Saving,
             UNCHANGED <<file, redeemed, orphaned>>,
             IF next = "read" THEN mu = Nobody /\ mu' = h
             ELSE mu' = (IF mu = h THEN Nobody ELSE mu)
      PROVE  Chain'
  <2>1. Held'
    BY <1>1, <1>t, <1>c DEF Held
  <2>2. Unused'
    BY <1>1, <1>t, <1>c DEF Unused, Saving
  <2>3. Apart'
    BY <1>1, <1>t, <1>c DEF Apart, Saving
  <2>4. Succeeded'
    <3>1. file' \in redeemed' \ orphaned' => file \in redeemed \ orphaned
      BY <1>1, Zenon
    <3>2. ASSUME NEW g \in Threads, mu = g, pc[g] \in Saving
          PROVE  mu' = g /\ pc'[g] \in Saving
      BY <1>1, <1>t, <3>2 DEF Saving
    <3> QED
      BY <1>c, <3>1, <3>2, Zenon DEF Succeeded
  <2> QED
    BY <2>1, <2>2, <2>3, <2>4 DEF Chain
<1>2. ASSUME Issue(h), pc[h] = "idle", UNCHANGED <<mu, file, redeemed, orphaned>>
      PROVE  Chain'
  <2>1. /\ pc' = [pc EXCEPT ![h] = "open"]
        /\ tok' = [tok EXCEPT ![h] = issued + 1]
        /\ UNCHANGED <<mu, file, redeemed>>
    BY <1>2 DEF Issue, Goto
  <2>2. Held'
    BY <1>2, <2>1, <1>t, <1>c DEF Held
  <2>3. Unused'
    <3> SUFFICES ASSUME NEW g \in Threads, pc'[g] \in Saving
                 PROVE  tok'[g] \notin redeemed /\ tok'[g] # file
      BY <2>1 DEF Unused
    <3>1. CASE g = h
      <4>1. issued + 1 \notin redeemed /\ issued + 1 # file
        BY <1>t, StoreAssumption
      <4> QED
        BY <2>1, <1>t, <3>1, <4>1
    <3>2. CASE g # h
      BY <2>1, <1>t, <1>c, <3>2 DEF Unused
    <3> QED
      BY <3>1, <3>2
  <2>4. Apart'
    BY <2>1, <1>t, <1>c DEF Apart, Saving
  <2>5. Succeeded'
    <3>1. file' \in redeemed' \ orphaned' => file \in redeemed \ orphaned
      BY <1>2, Zenon
    <3>2. ASSUME NEW g \in Threads, mu = g, pc[g] \in Saving
          PROVE  mu' = g /\ pc'[g] \in Saving
      BY <2>1, <1>t, <3>2 DEF Saving
    <3> QED
      BY <1>c, <3>1, <3>2, Zenon DEF Succeeded
  <2> QED
    BY <2>2, <2>3, <2>4, <2>5 DEF Chain
<1>3. CASE Lock(h)
  <2>1. /\ pc' = [pc EXCEPT ![h] = "read"] /\ tok' = [tok EXCEPT ![h] = tok[h]]
        /\ mu = Nobody /\ mu' = h /\ pc[h] = "idle"
        /\ UNCHANGED <<file, redeemed, orphaned>>
    BY <1>3, <1>t DEF Lock, Goto, providerVars
  <2> QED
    BY <1>1, <2>1 DEF Saving
<1>4. CASE ReadToken(h)
  <2>1. pc[h] = "read" /\ mu = h /\ UNCHANGED <<file, redeemed, orphaned>>
    BY <1>4, <1>t DEF ReadToken, providerVars
  <2>2. CASE Unlock(h) /\ Leave(h)
    BY <1>1, <2>1, <2>2 DEF Unlock, Leave, Goto, Saving
  <2>3. CASE Unlock(h) /\ Take(h, "deliver")
    BY <1>1, <2>1, <2>3 DEF Unlock, Take, Goto, Saving
  <2>4. CASE file \in Token /\ Take(h, "redeem") /\ UNCHANGED mu
    <3>1. /\ pc' = [pc EXCEPT ![h] = "redeem"]
          /\ tok' = [tok EXCEPT ![h] = file] /\ mu' = h
      BY <2>1, <2>4 DEF Take, Goto
    <3>2. Held'
      BY <3>1, <1>t DEF Held
    <3>3. Unused'
      BY <2>1, <3>1, <1>t, <1>c DEF Unused, Saving
    <3>4. Apart'
      BY <2>1, <3>1, <1>t, <1>c DEF Apart, Unused, Saving
    <3>5. Succeeded'
      <4>1. file' \in redeemed' \ orphaned' => file \in redeemed \ orphaned
        BY <2>1, Zenon
      <4>2. ASSUME NEW g \in Threads, mu = g, pc[g] \in Saving
            PROVE  FALSE
        BY <2>1, <4>2 DEF Saving
      <4> QED
        BY <1>c, <4>1, <4>2, Zenon DEF Succeeded
    <3> QED
      BY <3>2, <3>3, <3>4, <3>5 DEF Chain
  <2> QED
    BY <1>4, <2>2, <2>3, <2>4 DEF ReadToken
<1>5. CASE Redeem(h)
  <2>1. pc[h] = "redeem" /\ mu = h /\ UNCHANGED file
    BY <1>5, <1>t DEF Redeem
  <2>2. CASE /\ Issue(h) /\ redeemed' = redeemed \cup {tok[h]}
             /\ UNCHANGED <<mu, orphaned>>
    <3>1. /\ pc' = [pc EXCEPT ![h] = "open"]
          /\ tok' = [tok EXCEPT ![h] = issued + 1] /\ mu' = h
      BY <2>1, <2>2 DEF Issue, Goto
    <3>2. issued + 1 \notin redeemed' /\ issued + 1 # file
      <4>1. issued + 1 \notin redeemed /\ issued + 1 # tok[h]
        BY <1>t
      <4> QED
        BY <1>t, <2>2, <4>1, StoreAssumption
    <3>3. Held'
      BY <3>1, <1>t DEF Held
    <3>4. Unused'
      <4> SUFFICES ASSUME NEW g \in Threads, pc'[g] \in Saving
                   PROVE  tok'[g] \notin redeemed' /\ tok'[g] # file
        BY <2>1 DEF Unused
      <4>1. CASE g = h
        BY <3>1, <3>2, <1>t, <4>1
      <4>2. CASE g # h
        <5>1. pc[g] \in Saving /\ tok'[g] = tok[g]
          BY <3>1, <1>t, <4>2
        <5>2. tok[g] \notin redeemed /\ tok[g] # file
          BY <1>c, <5>1 DEF Unused
        <5>3. tok[g] # tok[h]
          BY <1>c, <2>1, <4>2, <5>1 DEF Apart
        <5> QED
          BY <2>2, <5>1, <5>2, <5>3
      <4> QED
        BY <4>1, <4>2
    <3>5. Apart'
      BY <3>1, <1>t, <1>c DEF Apart, Saving
    <3>6. Succeeded'
      BY <3>1, <1>t DEF Succeeded, Saving
    <3> QED
      BY <3>3, <3>4, <3>5, <3>6 DEF Chain
  <2>3. CASE Unlock(h) /\ Leave(h) /\ UNCHANGED <<redeemed, orphaned>>
    BY <1>1, <2>1, <2>3 DEF Unlock, Leave, Goto, Saving
  <2>4. CASE /\ Unlock(h) /\ Leave(h)
             /\ redeemed' = redeemed \cup {tok[h]}
             /\ orphaned' = orphaned \cup {tok[h]}
    <3>1. /\ pc' = [pc EXCEPT ![h] = "idle"] /\ mu' = Nobody
          /\ tok' = [tok EXCEPT ![h] = 0]
      BY <2>1, <2>4 DEF Unlock, Leave, Goto
    <3>2. Held'
      BY <3>1, <1>t DEF Held
    <3>3. Unused'
      <4> SUFFICES ASSUME NEW g \in Threads, pc'[g] \in Saving
                   PROVE  tok'[g] \notin redeemed' /\ tok'[g] # file
        BY <2>1 DEF Unused
      <4>1. g # h /\ pc[g] \in Saving /\ tok'[g] = tok[g]
        BY <3>1, <1>t DEF Saving
      <4>2. tok[g] \notin redeemed /\ tok[g] # file
        BY <1>c, <4>1 DEF Unused
      <4>3. tok[g] # tok[h]
        BY <1>c, <2>1, <4>1 DEF Apart
      <4> QED
        BY <2>4, <4>1, <4>2, <4>3
    <3>4. Apart'
      BY <3>1, <1>t, <1>c DEF Apart, Saving
    <3>5. file' \in redeemed' \ orphaned' => file \in redeemed \ orphaned
      BY <2>1, <2>4
    <3>6. ~\E g \in Threads : mu = g /\ pc[g] \in Saving
      BY <2>1 DEF Saving
    <3>7. Succeeded'
      BY <1>c, <3>5, <3>6, Zenon DEF Succeeded
    <3> QED
      BY <3>2, <3>3, <3>4, <3>7 DEF Chain
  <2> QED
    BY <1>5, <2>2, <2>3, <2>4 DEF Redeem, providerVars
<1>6. CASE ExchangeToken(h)
  <2>1. pc[h] = "idle" /\ UNCHANGED <<mu, file, redeemed, orphaned>>
    BY <1>6 DEF ExchangeToken
  <2>2. CASE UNCHANGED <<threadVars, issued, age, first>>
    BY <2>1, <2>2, ChainUnchanged DEF threadVars
  <2> QED
    BY <1>6, <1>2, <2>1, <2>2 DEF ExchangeToken
<1>7. CASE /\ pc[h] = "open" /\ Goto(h, "write") /\ file' = Torn
            /\ UNCHANGED <<mu, tok, redeemed, orphaned>>
  <2>2. Held'
    BY <1>7, <1>t, <1>c DEF Held, Goto
  <2>3. Unused'
    BY <1>7, <1>n, <1>t, <1>c DEF Unused, Saving, Goto
  <2>4. Apart'
    BY <1>7, <1>t, <1>c DEF Apart, Saving, Goto
  <2>5. Succeeded'
    BY <1>7, <1>n DEF Succeeded
  <2> QED
    BY <2>2, <2>3, <2>4, <2>5 DEF Chain
<1>8. ASSUME pc[h] \in Saving, Goto(h, "deliver"), Unlock(h),
             UNCHANGED <<tok, redeemed>>,
             \/ file' = file /\ Orphan(h)
             \/ file' \in {Torn, tok[h]} /\ UNCHANGED orphaned
      PROVE  Chain'
  <2>2. tok[h] \notin redeemed
    BY <1>8, <1>c DEF Unused
  <2>3. Held'
    BY <1>8, <1>t, <1>c DEF Held, Goto, Unlock
  <2>4. Unused'
    <3> SUFFICES ASSUME NEW g \in Threads, pc'[g] \in Saving
                 PROVE  tok[g] \notin redeemed /\ tok[g] # file'
      BY <1>8 DEF Unused
    <3>1. g # h /\ pc[g] \in Saving
      BY <1>8, <1>t DEF Goto, Saving
    <3>2. tok[g] \notin redeemed /\ tok[g] # file
      BY <1>c, <3>1 DEF Unused
    <3>3. tok[g] # tok[h]
      BY <1>8, <1>c, <3>1 DEF Apart, Saving
    <3> QED
      BY <1>8, <1>n, <3>2, <3>3
  <2>5. Apart'
    BY <1>8, <1>t, <1>c DEF Apart, Saving, Goto
  <2>6. Succeeded'
    <3>1. CASE file' \in {Torn, tok[h]}
      BY <1>8, <1>n, <2>2, <3>1 DEF Succeeded
    <3>2. CASE file' = file /\ Orphan(h)
      <4>1. file' \in redeemed' \ orphaned'
              => file \in redeemed \ orphaned /\ mu # h
        BY <1>8, <3>2 DEF Orphan
      <4>2. ASSUME NEW g \in Threads, mu = g, pc[g] \in Saving, mu # h
            PROVE  mu' = g /\ pc'[g] \in Saving
        BY <1>8, <1>t, <4>2 DEF Saving, Goto, Unlock
      <4> QED
        BY <1>c, <4>1, <4>2, Zenon DEF Succeeded
    <3> QED
      BY <1>8, <3>1, <3>2
  <2> QED
    BY <2>3, <2>4, <2>5, <2>6 DEF Chain
<1>9. CASE OpenFile(h)
  <2>1. pc[h] = "open" /\ pc[h] \in Saving /\ UNCHANGED redeemed
    BY <1>9 DEF OpenFile, Saving, providerVars
  <2>2. CASE /\ file' = Torn /\ Goto(h, "write")
             /\ UNCHANGED <<first, mu, tok, orphaned>>
    BY <1>7, <2>1, <2>2
  <2>3. CASE Saved(h) /\ Orphan(h) /\ UNCHANGED file
    BY <1>8, <2>1, <2>3 DEF Saved
  <2> QED
    BY <1>9, <2>2, <2>3 DEF OpenFile
<1>10. CASE WriteFile(h)
  BY <1>8, <1>10 DEF WriteFile, Saved, Saving, providerVars
<1>11. CASE renewAllLeases(h)
  <2>1. /\ pc[h] = "deliver" /\ Leave(h)
        /\ UNCHANGED <<mu, file, redeemed, orphaned>>
    BY <1>11 DEF renewAllLeases, providerVars
  <2>2. mu # h
    BY <1>c, <2>1 DEF Held
  <2> QED
    BY <1>1, <2>1, <2>2 DEF Leave, Goto, Saving
<1> QED
  BY <1>3, <1>4, <1>5, <1>6, <1>9, <1>10, <1>11 DEF Step

(* A chain at first and after every step.                                  *)
LEMMA ChainInvariant == Spec => []Chain
<1>1. Init => Chain
  <2> SUFFICES ASSUME Init PROVE Chain
    OBVIOUS
  <2>1. redeemed = {} /\ mu = Nobody /\ Nobody \notin Threads
        /\ \A h \in Threads : pc[h] = "idle"
    BY StoreAssumption DEF Init
  <2> QED
    BY <2>1 DEF Chain, Held, Unused, Apart, Succeeded, Saving
<1>2. TypeOK /\ TypeOK' /\ Chain /\ [Next]_vars => Chain'
  <2> SUFFICES ASSUME TypeOK, TypeOK', Chain, [Next]_vars PROVE Chain'
    OBVIOUS
  <2>1. CASE UNCHANGED vars
    BY <2>1, ChainUnchanged DEF vars, threadVars, providerVars
  <2>2. CASE StartAgent \/ BeginLogin \/ \E t \in Token : Ages(t)
    <3>1. UNCHANGED <<mu, pc, tok, file, redeemed, orphaned>>
      BY <2>2 DEF StartAgent, BeginLogin, Ages, threadVars, providerVars
    <3> QED
      BY <3>1, ChainUnchanged
  <2>3. CASE Kill
    <3>1. /\ mu' = Nobody /\ Nobody \notin Threads
          /\ (\A h \in Threads : pc'[h] = "idle")
          /\ UNCHANGED <<file, redeemed>>
      BY <2>3, StoreAssumption DEF Kill, providerVars
    <3>2. Held' /\ Unused' /\ Apart'
      BY <3>1 DEF Held, Unused, Apart, Saving
    <3>3. file' \notin redeemed' \ orphaned'
      <4>1. CASE \E h \in Threads : mu = h /\ pc[h] \in Saving
        BY <2>3, <3>1, <4>1 DEF Kill, Saving
      <4>2. CASE ~\E h \in Threads : mu = h /\ pc[h] \in Saving
        <5>1. file \notin redeemed \ orphaned
          BY <4>2 DEF Chain, Succeeded
        <5> QED
          BY <2>3, <3>1, <5>1 DEF Kill
      <4> QED
        BY <4>1, <4>2
    <3> QED
      BY <3>2, <3>3, Zenon DEF Chain, Succeeded
  <2> QED
    BY <2>1, <2>2, <2>3, ChainStep DEF Next
<1> QED
  BY <1>1, <1>2, StoreTypeCorrect, PTL DEF Spec

(* Whenever mu is free, the token of the file can still be refreshed unless*)
(* its own successor was lost: with the provider's answer, with a process  *)
(* or on its way to the file.                                              *)
THEOREM FileStaysUsable == Spec => []FileTokenUsable
<1>1. TypeOK /\ Chain => FileTokenUsable
  BY StoreAssumption DEF TypeOK, Chain, Succeeded, FileTokenUsable
<1> QED
  BY <1>1, ChainInvariant, StoreTypeCorrect, PTL

(* A refresh token is presented to the provider once, unless its successor *)
(* was lost: it is read from a file whose token is unused, and nobody but  *)
(* the holder of mu uses one up.                                           *)
THEOREM TokensRedeemedOnce == Spec => []RedeemedOnce
<1>1. Init => RedeemedOnce
  BY DEF Init, RedeemedOnce
<1>2. TypeOK /\ Chain /\ RedeemedOnce /\ [Next]_vars => RedeemedOnce'
  <2> SUFFICES ASSUME TypeOK, Chain, RedeemedOnce, [Next]_vars,
                      NEW h \in Threads, pc'[h] = "redeem"
               PROVE  tok'[h] \notin redeemed' \ orphaned'
    BY DEF RedeemedOnce
  <2>1. CASE UNCHANGED <<pc, tok, redeemed, orphaned>>
    BY <2>1 DEF RedeemedOnce
  <2>2. ASSUME NEW g \in Threads, Step(g)
        PROVE  tok'[h] \notin redeemed' \ orphaned'
    <3>1. orphaned \in SUBSET orphaned'
      BY <2>2 DEF Step, Lock, ReadToken, Redeem, ExchangeToken, OpenFile,
                  WriteFile, renewAllLeases, Orphan
    <3>2. CASE g = h
      <4>1. /\ ReadToken(h) /\ pc[h] = "read" /\ tok' = [tok EXCEPT ![h] = file]
            /\ UNCHANGED <<redeemed, orphaned>>
        BY <2>2, <3>2
        DEF TypeOK, Step, Lock, ReadToken, Redeem, ExchangeToken, OpenFile,
            WriteFile, renewAllLeases, Saved, Leave, Goto, Take, Issue,
            providerVars, threadVars
      <4>2. mu = h /\ ~(pc[h] \in Saving)
        BY <4>1 DEF TypeOK, Saving
      <4>3. file \notin redeemed \ orphaned
        BY <3>1, <4>2 DEF Chain, Succeeded
      <4> QED
        BY <4>1, <4>3 DEF TypeOK
    <3>3. CASE g # h
      <4>1. pc[h] = "redeem" /\ tok'[h] = tok[h]
        BY <2>2, <3>3
        DEF TypeOK, Step, Lock, ReadToken, Redeem, ExchangeToken, OpenFile,
            WriteFile, renewAllLeases, Saved, Leave, Goto, Take, Issue,
            threadVars
      <4>2. mu = h
        BY <4>1 DEF TypeOK
      <4>3. pc[g] # "redeem"
        BY <3>3, <4>2 DEF TypeOK
      <4>4. UNCHANGED redeemed
        BY <2>2, <4>3
        DEF Step, Lock, ReadToken, Redeem, ExchangeToken, OpenFile, WriteFile,
            renewAllLeases, providerVars
      <4> QED
        BY <3>1, <4>1, <4>4 DEF RedeemedOnce
    <3> QED
      BY <3>2, <3>3
  <2>3. CASE Kill
    BY <2>3 DEF Kill
  <2>4. CASE UNCHANGED vars \/ StartAgent \/ BeginLogin
               \/ \E t \in Token : Ages(t)
    BY <2>1, <2>4
    DEF vars, StartAgent, BeginLogin, Ages, threadVars, providerVars
  <2> QED
    BY <2>2, <2>3, <2>4 DEF Next
<1> QED
  BY <1>1, <1>2, ChainInvariant, StoreTypeCorrect, PTL DEF Spec
=============================================================================
