--------------------------- MODULE SdkClientProofs ---------------------------
(***************************************************************************)
(* Proofs about SdkClient for any names, values and schema, any size of a  *)
(* page, any number of calls and polls in flight, writes and rotations.    *)
(*                                                                         *)
(* What a call asks for is fixed when it gets its key: the hashes of its   *)
(* names under that key, and nothing else.  An answer that is complete and *)
(* opens under the key therefore has one name for each row, whatever       *)
(* happened to the rows since.  A call that ends with values has passed    *)
(* the token's check at its last request, so that it began before the      *)
(* token was revoked.                                                      *)
(***************************************************************************)
EXTENDS SdkClient, TLAPS

-----------------------------------------------------------------------------
(* The inductive invariant.                                                *)

\* What is true of a call in progress when the token is t.
CallHolds(k, t) ==
    /\ k.kind = "all" => k.names = {}
    /\ k.phase = "list" => k.names = {}
    /\ k.phase = "rows" /\ k.names # {} => k.asked = HashesOf(k.names, k.key)
    /\ k.phase # "answered" => k.result = NoSecrets
    /\ k.late => t = "revoked"

\* What is true of the values it ends with.
Loaded(k) ==
    /\ k.names # {} => DOMAIN k.result = k.names
    /\ \A n \in DOMAIN k.result :
         \E r \in k.stored :
            /\ r.id.name = n /\ r.value = k.result[n]
            /\ n \in k.names => r.id = Hash(n, k.key)

\* k is a call as the invariant wants it, or none.
Good(k, t) ==
    k # None =>
        /\ k \in Calls /\ CallHolds(k, t)
        /\ k.phase = "answered" /\ k.result # None => ~k.late /\ Loaded(k)

CallsHold == \A c \in Callers : Good(call[c], token)

ConfigHolds ==
    /\ call["config"] # None => call["config"].kind = "config" /\ call["config"].names = Schema
    /\ vite.phase = "built" => DOMAIN vite.defines = Schema

IInv == TypeOK /\ CallsHold /\ ConfigHolds

-----------------------------------------------------------------------------
(* Calls.                                                                  *)

LEMMA NoSecretsType == NoSecrets \in Secrets /\ DOMAIN NoSecrets = {}
<1>1. NoSecrets \in [{} -> Values] /\ {} \in SUBSET Names
  BY DEF NoSecrets
<1> QED BY <1>1 DEF Secrets, NoSecrets

LEMMA HashType ==
  ASSUME NEW S \in SUBSET Names, NEW d \in Deks
  PROVE  HashesOf(S, d) \in SUBSET Hashes
  BY DEF HashesOf, Hash, Hashes

LEMMA NewCallType ==
  ASSUME NEW kind \in {"load", "all", "get", "select", "config", "poll"}, NEW S \in SUBSET Names,
         NEW key \in Deks \cup {None}, NEW base \in Secrets \cup {None},
         kind = "all" => S = {}
  PROVE  /\ NewCall(kind, S, key, base) \in Calls
         /\ NewCall(kind, S, key, base).kind = kind /\ NewCall(kind, S, key, base).names = S
         /\ Good(NewCall(kind, S, key, base), token)
<1> DEFINE phase == IF key = None THEN "crypto" ELSE IF kind = "all" THEN "list" ELSE "rows"
           asked == IF key = None THEN {} ELSE HashesOf(S, key)
           late == token = "revoked"
           k == NewCall(kind, S, key, base)
<1>1. asked \in SUBSET Hashes
  BY HashType
<1>2. phase \in {"crypto", "list", "rows"} /\ late \in BOOLEAN
  OBVIOUS
<1>3. k = [kind |-> kind, names |-> S, key |-> key, phase |-> phase, asked |-> asked,
           result |-> NoSecrets, base |-> base, late |-> late, stored |-> {}]
  BY DEF NewCall
<1>4. /\ phase = "list" => S = {}
      /\ phase = "rows" => asked = HashesOf(S, key)
  OBVIOUS
<1> HIDE DEF phase, asked, late
<1>5. k \in Calls
  BY <1>1, <1>2, <1>3, NoSecretsType DEF Calls
<1>6. CallHolds(k, token)
  <2>1. /\ k.kind = kind /\ k.names = S /\ k.key = key /\ k.phase = phase /\ k.asked = asked
        /\ k.result = NoSecrets /\ k.late = late
    BY <1>3
  <2>2. k.late => token = "revoked"
    BY <2>1 DEF late
  <2> QED BY <1>4, <2>1, <2>2 DEF CallHolds
<1> QED BY <1>2, <1>3, <1>5, <1>6 DEF Good

LEMMA AsksType ==
  ASSUME NEW k \in Calls, NEW t, Good(k, t), k.phase # "answered",
         NEW key \in Deks \cup {None}, NEW phase \in {"list", "rows", "answered"},
         NEW asked \in SUBSET Hashes, k # None,
         phase # "rows" => k.names = {},
         phase = "rows" /\ k.names # {} => asked = HashesOf(k.names, key),
         phase = "answered" => t = "active"
  PROVE  Good(Asks(k, key, phase, asked), t)
<1> DEFINE m == Asks(k, key, phase, asked)
<1>1. CallHolds(k, t) /\ k.result = NoSecrets
  BY DEF Good, CallHolds
<1>2. /\ m.kind = k.kind /\ m.names = k.names /\ m.key = key /\ m.phase = phase
      /\ m.asked = asked /\ m.result = NoSecrets /\ m.late = k.late /\ m.stored = k.stored
  BY <1>1 DEF Asks
<1>3. m \in Calls
  BY DEF Asks, Calls
<1> HIDE DEF m
<1>4. CallHolds(m, t)
  BY <1>1, <1>2 DEF CallHolds
<1>5. ASSUME m.phase = "answered" PROVE ~m.late /\ Loaded(m)
  BY <1>1, <1>2, <1>5, NoSecretsType DEF CallHolds, Loaded
<1> QED BY <1>3, <1>4, <1>5 DEF Good, m

LEMMA EndedType ==
  ASSUME NEW k \in Calls, NEW t, Good(k, t), k # None,
         NEW f \in Secrets \cup {None}, NEW R \in SUBSET Rows,
         f # None => t = "active" /\ Loaded(Ended(k, f, R))
  PROVE  Good(Ended(k, f, R), t)
<1> DEFINE m == Ended(k, f, R)
<1>1. CallHolds(k, t)
  BY DEF Good
<1>2. /\ m.kind = k.kind /\ m.names = k.names /\ m.phase = "answered"
      /\ m.result = f /\ m.late = k.late
  BY DEF Ended
<1>3. m \in Calls
  BY DEF Ended, Calls
<1>4. f # None => t = "active" /\ Loaded(m)
  OBVIOUS
<1> HIDE DEF m
<1>5. CallHolds(m, t)
  BY <1>1, <1>2 DEF CallHolds
<1>6. m.result # None => ~m.late /\ Loaded(m)
  BY <1>1, <1>2, <1>4 DEF CallHolds
<1> QED BY <1>3, <1>5, <1>6 DEF Good, m

-----------------------------------------------------------------------------
(* Answers.                                                                *)

LEMMA AnswerType ==
  ASSUME TypeOK, NEW c \in Callers, call[c] # None, call[c].phase = "rows", Good(call[c], token),
         NEW answer \in SetToSeqs({r \in store : r.id \in call[c].asked}),
         NEW f \in Decrypted(c, answer)
  PROVE  /\ f \in Secrets \cup {None} /\ Range(answer) \in SUBSET Rows
         /\ f # None => Loaded(Ended(call[c], f, Range(answer)))
<1> DEFINE k == call[c]
           rows == Range(answer)
           named == {answer[i].id.name : i \in DOMAIN answer}
           m == Ended(k, f, rows)
<1>1. k \in Calls /\ store \subseteq Rows
  BY DEF TypeOK
<1>2. rows \subseteq {r \in store : r.id \in k.asked} /\ \A i \in DOMAIN answer : answer[i] \in rows
  BY DEF SetToSeqs, Range
<1>3. \A r \in rows : \E i \in DOMAIN answer : r = answer[i]
  BY DEF Range
<1>4. \A i \in DOMAIN answer : answer[i].id.name \in Names
  BY <1>1, <1>2 DEF Rows, Hashes
<1>5. named \in SUBSET Names
  BY <1>4
<1>6. CASE f = None
  BY <1>1, <1>2, <1>6
<1>7. CASE f # None
  <2>1. f \in ByHash(k.names, answer) /\ ~Missing(k.asked, rows)
    BY <1>7 DEF Decrypted
  <2>2. /\ f \in [named -> Values]
        /\ \A n \in named : \E i \in DOMAIN answer : answer[i].id.name = n /\ f[n] = answer[i].value
    BY <2>1 DEF ByHash
  <2>3. f \in Secrets /\ DOMAIN f = named
    BY <1>5, <2>2 DEF Secrets
  <2>4. m.names = k.names /\ m.key = k.key /\ m.result = f /\ m.stored = rows
    BY DEF Ended
  <2>5. ASSUME k.names # {} PROVE k.asked = HashesOf(k.names, k.key)
    BY <2>5 DEF Good, CallHolds
  <2> HIDE DEF rows, m, k, named
  <2>6. ASSUME k.names # {} PROVE named = k.names
    <3>1. ASSUME NEW n \in k.names PROVE n \in named
      <4>1. Hash(n, k.key) \in k.asked
        BY <2>5, <2>6 DEF HashesOf
      <4>2. PICK r \in rows : r.id = Hash(n, k.key)
        BY <2>1, <4>1 DEF Missing
      <4> QED BY <1>3, <4>2 DEF Hash, named
    <3>2. ASSUME NEW i \in DOMAIN answer PROVE answer[i].id.name \in k.names
      <4>1. answer[i].id \in HashesOf(k.names, k.key)
        BY <1>2, <2>5, <2>6
      <4> QED BY <4>1 DEF HashesOf, Hash
    <3> QED BY <3>1, <3>2 DEF named
  <2>7. ASSUME NEW n \in named
        PROVE  \E r \in rows : /\ r.id.name = n /\ r.value = f[n]
                               /\ n \in k.names => r.id = Hash(n, k.key)
    <3>1. PICK i \in DOMAIN answer : answer[i].id.name = n /\ f[n] = answer[i].value
      BY <2>2
    <3>2. answer[i] \in rows
      BY <1>2
    <3>3. ASSUME n \in k.names PROVE answer[i].id = Hash(n, k.key)
      <4>1. answer[i].id \in HashesOf(k.names, k.key)
        BY <1>2, <2>5, <3>3
      <4> QED BY <3>1, <4>1 DEF HashesOf, Hash
    <3> QED BY <3>1, <3>2, <3>3
  <2>8. Loaded(m)
    BY <2>3, <2>4, <2>6, <2>7 DEF Loaded
  <2> QED BY <1>1, <1>2, <2>3, <2>8 DEF rows, m, k
<1> QED BY <1>6, <1>7

-----------------------------------------------------------------------------
(* Steps.                                                                  *)

\* The types of what is not a call.
Rest ==
    /\ store \subseteq Rows /\ dek \in Deks /\ token \in {"active", "revoked"}
    /\ network \in {"unsteady", "steady"} /\ writes \in 0..MaxWrites
    /\ program \in [kind : Programs, validates : BOOLEAN]
    /\ cached \in Deks \cup {None}
    /\ vite \in [phase : {"none", "starting", "up", "restarting", "built", "aborted"},
                 base : Secrets, defines : Secrets]

Calling == call \in [Callers -> Calls \cup {None}]

LEMMA TypeParts == TypeOK <=> Rest /\ Calling
  BY DEF TypeOK, Rest, Calling

LEMMA InitInv == Init => IInv
<1> SUFFICES ASSUME Init PROVE IInv
  OBVIOUS
<1> USE ConstantsAssumption
<1>1. 0 \in Deks /\ Schema \in SUBSET Names /\ None \in Deks \cup {None}
  BY DEF Deks
<1>2. Rest
  <2>1. store \subseteq Rows
    <3>1. \A n \in Schema : Hash(n, 0) \in Hashes
      BY <1>1 DEF Hash, Hashes
    <3>2. \A n \in Schema : Initial[n] \in Values
      OBVIOUS
    <3> QED BY <1>1, <3>1, <3>2 DEF Init, Rows
  <2>2. program \in [kind : Programs, validates : BOOLEAN]
    BY DEF Init
  <2>3. vite \in [phase : {"none", "starting", "up", "restarting", "built", "aborted"},
                 base : Secrets, defines : Secrets]
    BY NoSecretsType DEF Init, Server
  <2> QED BY <1>1, <2>1, <2>2, <2>3 DEF Init, Rest
<1>3. /\ NewCall("config", Schema, None, None) \in Calls
      /\ NewCall("config", Schema, None, None).kind = "config"
      /\ NewCall("config", Schema, None, None).names = Schema
      /\ Good(NewCall("config", Schema, None, None), token)
  BY <1>1, NewCallType
<1>4. \A c \in Callers : call[c] = None \/ call[c] = NewCall("config", Schema, None, None)
  BY DEF Init
<1>5. Calling
  BY <1>3, <1>4 DEF Init, Calling
<1>6. CallsHold
  BY <1>3, <1>4 DEF CallsHold, Good
<1>7. ConfigHolds
  <2>1. vite.phase # "built"
    BY DEF Init, Server
  <2>2. "config" \in Callers
    BY DEF Callers
  <2> QED BY <1>3, <1>4, <2>1, <2>2 DEF ConfigHolds
<1> QED BY <1>2, <1>5, <1>6, <1>7, TypeParts DEF IInv

\* One call changes.
LEMMA OneCall ==
  ASSUME Calling, CallsHold, NEW c \in Callers, NEW k, Good(k, token),
         call' = [call EXCEPT ![c] = k], token' = token,
         c = "config" => k = None \/ (k.kind = "config" /\ k.names = Schema),
         call["config"] # None => call["config"].kind = "config" /\ call["config"].names = Schema
  PROVE  /\ Calling' /\ CallsHold'
         /\ call'["config"] # None
              => call'["config"].kind = "config" /\ call'["config"].names = Schema
<1>1. k \in Calls \cup {None}
  BY DEF Good
<1>2. \A d \in Callers : call'[d] = IF d = c THEN k ELSE call[d]
  BY DEF Calling
<1>3. Calling'
  BY <1>1 DEF Calling
<1>4. CallsHold'
  BY <1>2 DEF CallsHold
<1>5. "config" \in Callers
  BY DEF Callers
<1> QED BY <1>2, <1>3, <1>4, <1>5

\* A step of a call keeps its kind and its names.
LEMMA CallGoesOn ==
  ASSUME Calling, CallsHold, ConfigHolds, NEW c \in Callers, call[c] # None, NEW k, Good(k, token),
         k.kind = call[c].kind, k.names = call[c].names,
         call' = [call EXCEPT ![c] = k], token' = token, vite' = vite
  PROVE  Calling' /\ CallsHold' /\ ConfigHolds'
<1>1. c = "config" => k.kind = "config" /\ k.names = Schema
  BY DEF ConfigHolds
<1>2. call["config"] # None => call["config"].kind = "config" /\ call["config"].names = Schema
  BY DEF ConfigHolds
<1>3. /\ Calling' /\ CallsHold'
      /\ call'["config"] # None => call'["config"].kind = "config" /\ call'["config"].names = Schema
  BY <1>1, <1>2, OneCall
<1> QED BY <1>3 DEF ConfigHolds

LEMMA CallEnds ==
  ASSUME Calling, CallsHold, ConfigHolds, NEW c \in Callers, token' = token,
         call' = [call EXCEPT ![c] = None], vite'.phase = "built" => DOMAIN vite'.defines = Schema
  PROVE  Calling' /\ CallsHold' /\ ConfigHolds'
<1>1. Good(None, token)
  BY DEF Good
<1>2. call["config"] # None => call["config"].kind = "config" /\ call["config"].names = Schema
  BY DEF ConfigHolds
<1>3. /\ Calling' /\ CallsHold'
      /\ call'["config"] # None => call'["config"].kind = "config" /\ call'["config"].names = Schema
  BY <1>1, <1>2, OneCall
<1> QED BY <1>3 DEF ConfigHolds

LEMMA CallBegins ==
  ASSUME Calling, CallsHold, ConfigHolds, NEW c \in Callers \ {"config"}, token' = token,
      vite' = vite,
         NEW k, Good(k, token), call' = [call EXCEPT ![c] = k]
  PROVE  Calling' /\ CallsHold' /\ ConfigHolds'
<1>1. call["config"] # None => call["config"].kind = "config" /\ call["config"].names = Schema
  BY DEF ConfigHolds
<1>2. /\ Calling' /\ CallsHold'
      /\ call'["config"] # None => call'["config"].kind = "config" /\ call'["config"].names = Schema
  BY <1>1, OneCall
<1> QED BY <1>2 DEF ConfigHolds

LEMMA ProgressHolds ==
  ASSUME IInv, NEW c \in Callers,
      Refuse(c) \/ ServeCrypto(c) \/ ServeList(c) \/ ServeRows(c) \/ Fail(c)
  PROVE  Calling' /\ CallsHold' /\ ConfigHolds'
<1> DEFINE k == call[c]
<1>1. Rest /\ Calling /\ CallsHold /\ ConfigHolds
  BY TypeParts DEF IInv
<1>2. k # None /\ k \in Calls /\ Good(k, token) /\ token' = token /\ vite' = vite
  BY <1>1 DEF Calling, CallsHold, Refuse, ServeCrypto, ServeList, ServeRows, Fail, project
<1>3. CASE Refuse(c) \/ Fail(c)
  <2>1. Good(Ended(k, None, {}), token)
    BY <1>2, EndedType
  <2>2. Ended(k, None, {}).kind = k.kind /\ Ended(k, None, {}).names = k.names
    BY DEF Ended
  <2>3. call' = [call EXCEPT ![c] = Ended(k, None, {})]
    BY <1>3 DEF Refuse, Fail
  <2> QED BY <1>1, <1>2, <2>1, <2>2, <2>3, CallGoesOn
<1>4. CASE ServeCrypto(c)
  <2> DEFINE phase == IF k.kind = "all" THEN "list" ELSE "rows"
             asked == HashesOf(k.names, dek)
             m == Asks(k, dek, phase, asked)
  <2>1. k.phase # "answered" /\ call' = [call EXCEPT ![c] = m]
    BY <1>4 DEF ServeCrypto
  <2>2. k.names \in SUBSET Names /\ dek \in Deks
    BY <1>1, <1>2 DEF Calls, Rest
  <2>3. asked \in SUBSET Hashes
    BY <2>2, HashType
  <2>4. k.kind = "all" => k.names = {}
    BY <1>2 DEF Good, CallHolds
  <2>5. Good(m, token)
    <3>1. phase \in {"list", "rows"} /\ (phase # "rows" => k.names = {})
      BY <2>4
    <3> HIDE DEF phase
    <3> QED BY <1>2, <2>1, <2>2, <2>3, <3>1, AsksType
  <2>6. m.kind = k.kind /\ m.names = k.names
    BY DEF Asks
  <2> QED BY <1>1, <1>2, <2>1, <2>5, <2>6, CallGoesOn
<1>5. CASE ServeList(c)
  <2>1. k.phase = "list" /\ token = "active"
    BY <1>5 DEF ServeList, TokenAccepted
  <2>2. PICK page \in SUBSET store :
           call' = [call EXCEPT ![c] = Asks(k, k.key, IF page = {} THEN "answered" ELSE "rows",
                                          {r.id : r \in page})]
    BY <1>5 DEF ServeList, kSubset
  <2> DEFINE phase == IF page = {} THEN "answered" ELSE "rows"
             asked == {r.id : r \in page}
             m == Asks(k, k.key, phase, asked)
  <2>3. asked \in SUBSET Hashes
    BY <1>1 DEF Rest, Rows
  <2>4. k.names = {} /\ k.key \in Deks \cup {None} /\ phase \in {"rows", "answered"}
    BY <1>2, <2>1 DEF Good, CallHolds, Calls
  <2>5. Good(m, token)
    <3> HIDE DEF phase, asked
    <3> QED BY <1>2, <2>1, <2>3, <2>4, AsksType
  <2>6. m.kind = k.kind /\ m.names = k.names
    BY DEF Asks
  <2> QED BY <1>1, <1>2, <2>2, <2>5, <2>6, CallGoesOn
<1>6. CASE ServeRows(c)
  <2>1. k.phase = "rows" /\ token = "active"
    BY <1>6 DEF ServeRows, TokenAccepted
  <2>2. PICK answer \in SetToSeqs({r \in store : r.id \in k.asked}) :
          \E f \in Decrypted(c, answer) : call' = [call EXCEPT ![c] = Ended(k, f, Range(answer))]
    BY <1>6 DEF ServeRows
  <2>3. PICK f \in Decrypted(c, answer) : call' = [call EXCEPT ![c] = Ended(k, f, Range(answer))]
    BY <2>2
  <2>4. /\ f \in Secrets \cup {None} /\ Range(answer) \in SUBSET Rows
        /\ f # None => Loaded(Ended(k, f, Range(answer)))
    BY <1>2, <2>1, AnswerType DEF IInv
  <2> DEFINE m == Ended(k, f, Range(answer))
  <2>5. Good(m, token)
    BY <1>2, <2>1, <2>4, EndedType
  <2>6. m.kind = k.kind /\ m.names = k.names
    BY DEF Ended
  <2> QED BY <1>1, <1>2, <2>3, <2>5, <2>6, CallGoesOn
<1> QED BY <1>3, <1>4, <1>5, <1>6

LEMMA BeginHolds ==
  ASSUME IInv, NEW c \in Asking \cup Polling,
         \/ Load(c) \/ LoadAll(c) \/ Get(c) \/ Select(c)
         \/ Tick(c)
  PROVE  Calling' /\ CallsHold' /\ ConfigHolds'
<1>1. Rest /\ Calling /\ CallsHold /\ ConfigHolds
  BY TypeParts DEF IInv
<1>2. token' = token /\ vite' = vite
  BY DEF Load, LoadAll, Get, Select, Tick, Call, project
<1>3. PICK kind \in {"load", "all", "get", "select", "poll"}, S \in SUBSET Names,
           key \in Deks \cup {None}, base \in Secrets \cup {None} :
        (kind = "all" => S = {}) /\ call' = [call EXCEPT ![c] = NewCall(kind, S, key, base)]
  <2>1. cached \in Deks \cup {None} /\ vite.base \in Secrets /\ Schema \in SUBSET Names
    BY <1>1, ConstantsAssumption DEF Rest
  <2>2. CASE Load(c)
    <3>1. call' = [call EXCEPT ![c] = NewCall("load", Schema, cached, None)]
      BY <2>2 DEF Load, Call
    <3> QED BY <2>1, <3>1
  <2>3. CASE LoadAll(c)
    <3>1. call' = [call EXCEPT ![c] = NewCall("all", {}, cached, None)]
      BY <2>3 DEF LoadAll, Call
    <3> QED BY <2>1, <3>1
  <2>4. CASE Get(c)
    <3>1. PICK n \in Schema : call' = [call EXCEPT ![c] = NewCall("get", {n}, cached, None)]
      BY <2>4 DEF Get, Call
    <3>2. {n} \in SUBSET Names
      BY <2>1
    <3> QED BY <2>1, <3>1, <3>2
  <2>5. CASE Select(c)
    <3>1. PICK S \in SUBSET Schema : call' = [call EXCEPT ![c] = NewCall("select", S, cached, None)]
      BY <2>5 DEF Select, Call
    <3>2. S \in SUBSET Names
      BY <2>1
    <3> QED BY <2>1, <3>1, <3>2
  <2>6. CASE Tick(c)
    <3>1. call' = [call EXCEPT ![c] = NewCall("poll", Schema, None, vite.base)]
      BY <2>6 DEF Tick
    <3> QED BY <2>1, <3>1
  <2> QED BY <2>2, <2>3, <2>4, <2>5, <2>6
<1>4. Good(NewCall(kind, S, key, base), token)
  BY <1>3, NewCallType
<1>5. c \in Callers \ {"config"}
  BY ConstantsAssumption DEF Callers
<1> QED BY <1>1, <1>2, <1>3, <1>4, <1>5, CallBegins

LEMMA EndHolds ==
  ASSUME IInv, NEW c \in Callers, Return(c) \/ ReceivePoll(c) \/ ReceiveConfig
  PROVE  Calling' /\ CallsHold' /\ ConfigHolds'
<1>1. Rest /\ Calling /\ CallsHold /\ ConfigHolds
  BY TypeParts DEF IInv
<1>2. token' = token
  BY DEF Return, ReceivePoll, ReceiveConfig, project
<1>3. "config" \in Callers
  BY DEF Callers
<1>4. CASE Return(c)
  <2>1. call' = [call EXCEPT ![c] = None] /\ vite' = vite
    BY <1>4 DEF Return
  <2> QED BY <1>1, <1>2, <2>1, CallEnds DEF ConfigHolds
<1>5. CASE ReceiveConfig
  <2> DEFINE k == call["config"]
             secrets == IF k.result = None THEN NoSecrets ELSE k.result
  <2>1. k # None /\ k.phase = "answered" /\ call' = [call EXCEPT !["config"] = None]
        /\ Config("config")
    BY <1>5 DEF ReceiveConfig
  <2>2. k.names = Schema /\ Schema # {} /\ Good(k, token)
    BY <1>1, <1>3, <2>1, ConstantsAssumption DEF ConfigHolds, CallsHold
  <2>3. k.result # None => DOMAIN k.result = Schema
    BY <2>1, <2>2 DEF Good, Loaded
  <2>4. \/ k.result # None /\ vite' = Server("built", k.result, k.result)
        \/ \E p \in {"aborted", "up"} : \E base, defines : vite' = Server(p, base, defines)
    BY <2>1 DEF Config
  <2>5. vite'.phase = "built" => DOMAIN vite'.defines = Schema
    BY <2>3, <2>4 DEF Server
  <2> QED BY <1>1, <1>2, <1>3, <2>1, <2>5, CallEnds
<1>6. CASE ReceivePoll(c)
  <2> DEFINE new == NewCall("config", Schema, None, None)
  <2>1. \/ call' = [call EXCEPT ![c] = None] /\ vite' = vite
        \/ /\ call' = [call EXCEPT ![c] = None, !["config"] = new]
           /\ vite' = Server("restarting", vite.base, vite.defines)
    BY <1>6 DEF ReceivePoll
  <2>2. CASE call' = [call EXCEPT ![c] = None] /\ vite' = vite
    BY <1>1, <1>2, <2>2, CallEnds DEF ConfigHolds
  <2>3. CASE /\ call' = [call EXCEPT ![c] = None, !["config"] = new]
             /\ vite' = Server("restarting", vite.base, vite.defines)
    <3>1. new \in Calls /\ new.kind = "config" /\ new.names = Schema /\ Good(new, token)
      BY ConstantsAssumption, NewCallType
    <3> HIDE DEF new
    <3>2. \A d \in Callers : call'[d] \in {new, None, call[d]}
      BY <1>1, <2>3 DEF Calling
    <3>3. call'["config"] = new
      BY <1>1, <1>3, <2>3 DEF Calling
    <3>4. Calling'
      BY <1>1, <2>3, <3>1 DEF Calling
    <3>5. CallsHold'
      BY <1>1, <1>2, <3>1, <3>2 DEF CallsHold, Good
    <3>6. ConfigHolds'
      BY <2>3, <3>1, <3>3 DEF ConfigHolds, Server
    <3> QED BY <3>4, <3>5, <3>6
  <2> QED BY <2>1, <2>2, <2>3
<1> QED BY <1>4, <1>5, <1>6

\* Everybody else leaves the calls alone, and nobody takes a revocation back.
LEMMA OthersHold ==
  ASSUME IInv, UNCHANGED <<call, vite>>, token' \in {token, "revoked"}
  PROVE  Calling' /\ CallsHold' /\ ConfigHolds'
<1>1. Rest /\ Calling /\ CallsHold /\ ConfigHolds
  BY TypeParts DEF IInv
<1>2. ASSUME NEW k, Good(k, token) PROVE Good(k, token')
  BY <1>2 DEF Good, CallHolds
<1>3. CallsHold'
  BY <1>1, <1>2 DEF CallsHold
<1> QED BY <1>1, <1>3 DEF Calling, ConfigHolds

\* What is not a call keeps its type.
LEMMA RestHolds ==
  ASSUME IInv, [Next]_vars
  PROVE  Rest'
<1> DEFINE Phases == {"none", "starting", "up", "restarting", "built", "aborted"}
           Servers == [phase : Phases, base : Secrets, defines : Secrets]
<1>1. Rest /\ Calling /\ ConfigHolds
  BY TypeParts DEF IInv
<1>2. ASSUME NEW c \in Callers, ReceivePoll(c) PROVE Rest'
  <2>1. UNCHANGED <<project, network, program, cached>>
    BY <1>2 DEF ReceivePoll
  <2>2. vite' = vite \/ vite' = Server("restarting", vite.base, vite.defines)
    BY <1>2 DEF ReceivePoll
  <2>3. vite' \in Servers
    BY <1>1, <2>2 DEF Rest, Server
  <2> QED BY <1>1, <2>1, <2>3 DEF Rest, project
<1>3. CASE ReceiveConfig
  <2> DEFINE k == call["config"]
             secrets == IF k.result = None THEN NoSecrets ELSE k.result
  <2>1. UNCHANGED <<project, network, program, cached>>
    BY <1>3 DEF ReceiveConfig
  <2>2. k # None /\ "config" \in Callers
    BY <1>3 DEF ReceiveConfig, Callers
  <2>3. secrets \in Secrets
    BY <1>1, <2>2, NoSecretsType DEF Calling, Calls
  <2>4. vite' \in {Server("aborted", vite.base, vite.defines), Server("built", secrets, secrets),
                  Server("up", secrets, secrets)}
    BY <1>3 DEF ReceiveConfig, Config
  <2> HIDE DEF secrets
  <2>5. vite' \in Servers
    BY <1>1, <2>3, <2>4 DEF Rest, Server
  <2> QED BY <1>1, <2>1, <2>5 DEF Rest, project
<1>4. ASSUME NEW h \in Hashes, NEW v \in Values, Put(h, v) PROVE Rest'
  <2>1. /\ UNCHANGED <<dek, token, network, program, cached, vite>>
        /\ writes < MaxWrites /\ writes' = writes + 1
        /\ store' \subseteq store \cup {[id |-> h, value |-> v, dek |-> dek]}
    BY <1>4 DEF Put
  <2>2. store' \subseteq Rows
    BY <1>1, <2>1 DEF Rest, Rows
  <2>3. writes' \in 0..MaxWrites
    BY <1>1, <2>1, ConstantsAssumption DEF Rest
  <2> QED BY <1>1, <2>1, <2>2, <2>3 DEF Rest
<1>5. ASSUME NEW r \in store, Drop(r) PROVE Rest'
  <2>1. /\ UNCHANGED <<dek, token, network, program, cached, vite>> /\ store' \subseteq store
        /\ writes < MaxWrites /\ writes' = writes + 1
    BY <1>5 DEF Drop
  <2>2. writes' \in 0..MaxWrites
    BY <1>1, <2>1, ConstantsAssumption DEF Rest
  <2> QED BY <1>1, <2>1, <2>2 DEF Rest
<1>6. CASE Rotate
  <2>1. dek < MaxDek /\ dek' = dek + 1
        /\ store' = {[id |-> r.id, value |-> r.value, dek |-> dek + 1] : r \in store}
        /\ UNCHANGED <<token, network, writes, program, cached, vite>>
    BY <1>6 DEF Rotate
  <2>2. dek' \in Deks
    BY <1>1, <2>1, ConstantsAssumption DEF Rest, Deks
  <2>3. store' \subseteq Rows
    BY <1>1, <2>1, <2>2 DEF Rest, Rows
  <2> QED BY <1>1, <2>1, <2>2, <2>3 DEF Rest
<1>7. CASE Revoke \/ Settle
  BY <1>1, <1>7 DEF Rest, Revoke, Settle, project
<1>8. ASSUME NEW c \in Callers, ServeCrypto(c) PROVE Rest'
  <2>1. UNCHANGED <<project, network, program, vite>> /\ cached' \in {dek, cached}
    BY <1>8 DEF ServeCrypto
  <2> QED BY <1>1, <2>1 DEF Rest, project
<1>9. CASE UNCHANGED <<project, network, program, cached, vite>>
  BY <1>1, <1>9 DEF Rest, project
<1>10. \/ UNCHANGED <<project, network, program, cached, vite>>
       \/ \E c \in Callers : ReceivePoll(c) \/ ServeCrypto(c)
       \/ ReceiveConfig \/ Rotate \/ Revoke \/ Settle
       \/ \E h \in Hashes, v \in Values : Put(h, v)
       \/ \E r \in store : Drop(r)
  BY DEF Next, Progress, vars, project, Refuse, ServeList, ServeRows, Fail, Load, LoadAll, Get,
         Select, Call, Return, Tick
<1> QED BY <1>2, <1>3, <1>4, <1>5, <1>6, <1>7, <1>8, <1>9, <1>10

LEMMA NextInv == IInv /\ [Next]_vars => IInv'
<1> SUFFICES ASSUME IInv, [Next]_vars PROVE IInv'
  OBVIOUS
<1>1. ASSUME NEW c \in Callers, Progress(c) PROVE Calling' /\ CallsHold' /\ ConfigHolds'
  BY <1>1, ProgressHolds, EndHolds DEF Progress
<1>2. ASSUME NEW c \in Asking, Load(c) \/ LoadAll(c) \/ Get(c) \/ Select(c)
      PROVE  Calling' /\ CallsHold' /\ ConfigHolds'
  BY <1>2, BeginHolds
<1>3. ASSUME NEW c \in Asking, Return(c) PROVE Calling' /\ CallsHold' /\ ConfigHolds'
  BY <1>3, EndHolds DEF Callers
<1>4. ASSUME NEW c \in Polling, Tick(c) PROVE Calling' /\ CallsHold' /\ ConfigHolds'
  BY <1>4, BeginHolds
<1>5. ASSUME ReceiveConfig PROVE Calling' /\ CallsHold' /\ ConfigHolds'
  <2>1. "config" \in Callers
    BY DEF Callers
  <2> QED BY <1>5, <2>1, EndHolds
<1>6. ASSUME UNCHANGED <<call, vite>>, token' \in {token, "revoked"}
      PROVE  Calling' /\ CallsHold' /\ ConfigHolds'
  BY <1>6, OthersHold
<1>7. \/ \E c \in Callers : Progress(c)
      \/ \E c \in Asking : Load(c) \/ LoadAll(c) \/ Get(c) \/ Select(c) \/ Return(c)
      \/ \E c \in Polling : Tick(c)
      \/ ReceiveConfig
      \/ UNCHANGED <<call, vite>> /\ token' \in {token, "revoked"}
  BY DEF Next, vars, project, Put, Drop, Rotate, Revoke, Settle
<1>8. Calling' /\ CallsHold' /\ ConfigHolds'
  BY <1>1, <1>2, <1>3, <1>4, <1>5, <1>6, <1>7
<1>9. TypeOK' <=> Rest' /\ Calling'
  BY TypeParts, PTL
<1> QED BY <1>8, <1>9, RestHolds DEF IInv

-----------------------------------------------------------------------------
(* The theorems.                                                           *)

\* The calls, the store and the dev server keep their shape, and every call asks
\* for the hashes of its own names under the key it got.
THEOREM Invariant == Spec => []IInv
  BY InitInv, NextInv, PTL DEF Spec

\* Every variable keeps its type.
THEOREM TypeCorrect == Spec => []TypeOK
<1>1. IInv => TypeOK
  BY DEF IInv
<1> QED BY <1>1, Invariant, PTL

\* The values a call ends with are values of their own names, from rows that were
\* stored together at one moment, whatever order the rows came in; with a schema
\* no name is left out (zenv.ts, load and decryptBulk).
THEOREM ValuesOfOneMoment == Spec => []LoadedAsStored
<1>1. IInv => LoadedAsStored
  BY DEF IInv, CallsHold, Good, Loaded, LoadedAsStored, Answered
<1> QED BY <1>1, Invariant, PTL

\* A call begun after the revocation of its token ends with no values, also when
\* the instance kept the key (token_auth.go).
THEOREM NothingAfterRevocation == Spec => []RevokedMeansNoAnswers
<1>1. IInv => RevokedMeansNoAnswers
  BY DEF IInv, CallsHold, Good, RevokedMeansNoAnswers, Answered
<1> QED BY <1>1, Invariant, PTL

\* A build that completes has every declared secret (plugin.ts, config).
THEOREM CompleteBuilds == Spec => []BuildHasSecrets
<1>1. IInv => BuildHasSecrets
  BY DEF IInv, ConfigHolds, BuildHasSecrets
<1> QED BY <1>1, Invariant, PTL

=============================================================================
