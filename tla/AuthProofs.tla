----------------------------- MODULE AuthProofs -----------------------------
(***************************************************************************)
(* Proofs about Auth.tla, for any numbers, requests and faults: types,     *)
(* which codes are in the cache, that accounts have their gift, and where  *)
(* the password of an account may come from.                               *)
(***************************************************************************)
EXTENDS Auth, TLAPS

-----------------------------------------------------------------------------
(* The code c was sent to the phone of n.                                    *)
Texted(n, c) == <<n, c>> \in inbox[Subscriber[n]]

(* A request whose code was sent to n asked for c with the password w.       *)
Offered(n, c, w) ==
  \E q \in Requests :
    pc[q] = "sent" /\ number[q] = n /\ code[q] = c /\ password[q] = w

(* What a request in each place of its handler has.                          *)
RequestInv(r) ==
  /\ pc[r] \in Active => number[r] \in Numbers
  /\ pc[r] \in {"drawn", "texted"} => code[r] \in Codes
  /\ pc[r] \in {"texted", "verified", "inserted", "resetting"} => Texted(number[r], code[r])
  /\ pc[r] \in {"verified", "inserted"} => Offered(number[r], code[r], password[r])
  /\ pc[r] \in {"verified", "inserted", "resetting", "changing"} => password[r] \in Passwords
  /\ pc[r] = "inserted" => account[number[r]] = None
  /\ pc[r] = "changing" => account[number[r]] # None

(* users.phone is unique: one open INSERT of a number.                       *)
OneInsert ==
  \A r, q \in Requests :
    pc[r] = "inserted" /\ pc[q] = "inserted" /\ number[r] = number[q] => r = q

CacheInv ==
  \A n \in Numbers : cache[n] # NoEntry =>
    /\ Texted(n, cache[n].otp)
    /\ Offered(n, cache[n].otp, cache[n].hashedPassword)

AuthInv ==
  /\ TypeOK
  /\ \A r \in Requests : RequestInv(r)
  /\ OneInsert
  /\ CacheInv
  /\ AccountsFunded

LEMMA AuthInit == Init => AuthInv
  BY NoneAssumption
  DEF Init, AuthInv, TypeOK, RequestInv, OneInsert, CacheInv, AccountsFunded, Active, Gift

(* The answer "sent" is kept with its request, and what was sent stays sent. *)
LEMMA KnownStays ==
  ASSUME TypeOK, [Next]_vars, NEW n \in Numbers, NEW c, NEW w
  PROVE  /\ Texted(n, c) => Texted(n, c)'
         /\ Offered(n, c, w) => Offered(n, c, w)'
  <1>1. inbox' = inbox \/ \E r \in Requests : SendSms(r)
    BY DEF Next, Start, Continue, vars, DrawCode, Signup, ResetPassword, UpdateUserPassword,
           Login, Begin, StoreCode, InsertUser, CommitUser, CreateFails, UpdatePassword,
           ChangePassword, ExpireCode, Crash
  <1>2. Texted(n, c) => Texted(n, c)'
    BY <1>1, SubscriberAssumption DEF SendSms, Texted, TypeOK
  <1>3. ASSUME NEW q \in Requests, pc[q] = "sent"
        PROVE  /\ pc'[q] = "sent" /\ number'[q] = number[q]
               /\ code'[q] = code[q] /\ password'[q] = password[q]
    <2>1. CASE \E r \in Requests : Start(r)
      BY <1>3, <2>1 DEF Start, DrawCode, Signup, ResetPassword, UpdateUserPassword, Login,
                        Begin, Step, TypeOK
    <2>2. CASE \E r \in Requests : Continue(r)
      BY <1>3, <2>2 DEF Continue, SendSms, StoreCode, InsertUser, CommitUser, CreateFails,
                        UpdatePassword, ChangePassword, Step, TypeOK
    <2>3. CASE UNCHANGED vars \/ (\E m \in Numbers : ExpireCode(m)) \/ Crash
      BY <1>3, <2>3 DEF vars, ExpireCode, Crash, Active
    <2> QED BY <2>1, <2>2, <2>3 DEF Next
  <1> QED BY <1>2, <1>3 DEF Offered

(* A request that does not move keeps what it has, as long as the account it *)
(* creates or changes is there, or not there, as before.                     *)
LEMMA RequestKeeps ==
  ASSUME AuthInv, [Next]_vars, NEW q \in Requests,
         UNCHANGED <<pc[q], number[q], code[q], password[q]>>,
         pc[q] = "inserted" => account'[number[q]] = None,
         pc[q] = "changing" => account'[number[q]] # None
  PROVE  RequestInv(q)'
  <1>1. RequestInv(q)
    BY DEF AuthInv
  <1>2. /\ pc'[q] = pc[q] /\ number'[q] = number[q] /\ code'[q] = code[q]
        /\ password'[q] = password[q]
    OBVIOUS
  <1>3. ASSUME pc[q] \in Active
        PROVE  /\ Texted(number[q], code[q]) => Texted(number[q], code[q])'
               /\ Offered(number[q], code[q], password[q])
                    => Offered(number[q], code[q], password[q])'
    <2> DEFINE m == number[q]
               d == code[q]
               v == password[q]
    <2>1. m \in Numbers
      BY <1>1, <1>3 DEF RequestInv
    <2> QED BY <1>2, <2>1, KnownStays DEF AuthInv, Texted, Offered
  <1> QED BY <1>1, <1>2, <1>3 DEF RequestInv, Active

(* A request that begins is where its handler's first checks let it.         *)
LEMMA BeginKeeps ==
  ASSUME AuthInv, [Next]_vars, NEW r \in Requests, NEW n \in Numbers,
         NEW c \in Codes \union {None}, NEW w \in Passwords \union {None}, NEW to,
         Begin(r, n, c, w, to),
         to \in Active \union Answers,
         to \notin {"texted", "inserted"},
         to = "drawn" => c \in Codes,
         to \in {"verified", "resetting"} => Texted(n, c),
         to = "verified" => Offered(n, c, w),
         to \in {"verified", "resetting", "changing"} => w \in Passwords,
         to = "changing" => account[n] # None
  PROVE  AuthInv'
  <1>1. /\ UNCHANGED <<account, gift, cache, inbox>>
        /\ number' = [number EXCEPT ![r] = n] /\ code' = [code EXCEPT ![r] = c]
        /\ password' = [password EXCEPT ![r] = w] /\ pc' = [pc EXCEPT ![r] = to]
        /\ pc[r] = "new"
    BY DEF Begin, Step
  <1>2. TypeOK'
    BY <1>1 DEF AuthInv, TypeOK
  <1>3. ASSUME NEW q \in Requests
        PROVE  RequestInv(q)'
    <2>1. CASE q = r
      <3>1. /\ pc'[q] = to /\ number'[q] = n /\ code'[q] = c /\ password'[q] = w
            /\ account' = account
        BY <1>1, <2>1 DEF AuthInv, TypeOK
      <3>2. Texted(n, c) => Texted(n, c)'
        BY KnownStays DEF AuthInv
      <3>3. Offered(n, c, w) => Offered(n, c, w)'
        BY KnownStays DEF AuthInv
      <3>4. to \in {"verified", "resetting"} => Texted(number[q], code[q])'
        BY <3>1, <3>2 DEF Texted
      <3>5. to = "verified" => Offered(number[q], code[q], password[q])'
        BY <3>1, <3>3 DEF Offered
      <3> HIDE DEF Texted, Offered
      <3> QED BY <3>1, <3>4, <3>5 DEF RequestInv
    <2>2. CASE q # r
      BY <1>1, <2>2, RequestKeeps DEF AuthInv, TypeOK, RequestInv
    <2> QED BY <2>1, <2>2
  <1>4. OneInsert'
    BY <1>1 DEF AuthInv, TypeOK, OneInsert
  <1>5. CacheInv'
    BY <1>1, KnownStays DEF AuthInv, CacheInv, Texted, Offered
  <1>6. AccountsFunded'
    BY <1>1 DEF AuthInv, AccountsFunded
  <1> QED BY <1>2, <1>3, <1>4, <1>5, <1>6 DEF AuthInv

(* Every request begins so.                                                  *)
LEMMA StartKeeps ==
  ASSUME AuthInv, [Next]_vars, NEW r \in Requests, Start(r)
  PROVE  AuthInv'
  <1>1. CASE DrawCode(r)
    BY <1>1, BeginKeeps DEF DrawCode, Active, Answers
  <1>2. CASE Signup(r)
    <2>1. PICK n \in Numbers, c \in Codes :
            Begin(r, n, c, cache[n].hashedPassword,
                  Verdict(n, c, IF cache[n].hashedPassword = None THEN "missed" ELSE "verified"))
      BY <1>2 DEF Signup
    <2> DEFINE w == cache[n].hashedPassword
               to == Verdict(n, c, IF w = None THEN "missed" ELSE "verified")
    <2>2. w \in Passwords \union {None} /\ to \in {"error", "invalid", "missed", "verified"}
      BY DEF AuthInv, TypeOK, Entry, NoEntry, Verdict
    <2>3. to = "verified" => w \in Passwords /\ Texted(n, c) /\ Offered(n, c, w)
      BY <2>2 DEF AuthInv, CacheInv, Verdict
    <2> HIDE DEF w, to
    <2>4. Begin(r, n, c, w, to)
      BY <2>1 DEF w, to
    <2> QED BY <2>2, <2>3, <2>4, BeginKeeps DEF Active, Answers
  <1>3. CASE ResetPassword(r)
    <2>1. PICK n \in Numbers, c \in Codes, w \in Passwords :
            Begin(r, n, c, w, Verdict(n, c, "resetting"))
      BY <1>3 DEF ResetPassword
    <2> DEFINE to == Verdict(n, c, "resetting")
    <2>2. to \in {"error", "invalid", "resetting"}
      BY DEF Verdict
    <2>3. to = "resetting" => Texted(n, c)
      BY DEF AuthInv, CacheInv, Verdict
    <2> HIDE DEF to
    <2>4. Begin(r, n, c, w, to)
      BY <2>1 DEF to
    <2> QED BY <2>2, <2>3, <2>4, BeginKeeps DEF Active, Answers
  <1>4. CASE UpdateUserPassword(r)
    BY <1>4, BeginKeeps DEF UpdateUserPassword, Active, Answers
  <1>5. CASE Login(r)
    BY <1>5, BeginKeeps DEF Login, Active, Answers
  <1> QED BY <1>1, <1>2, <1>3, <1>4, <1>5 DEF Start

-----------------------------------------------------------------------------
(* The rest of the handlers                                                  *)

(* A step that leaves the accounts alone.                                    *)
LEMMA OthersKeep ==
  ASSUME AuthInv, [Next]_vars, NEW r \in Requests, NEW to, Step(r, to),
         UNCHANGED <<account, number, code, password>>
  PROVE  \A q \in Requests : q # r => RequestInv(q)'
  <1> SUFFICES ASSUME NEW q \in Requests, q # r PROVE RequestInv(q)'
    OBVIOUS
  <1>1. UNCHANGED <<pc[q], number[q], code[q], password[q]>>
    BY DEF Step, AuthInv, TypeOK
  <1> QED BY <1>1, RequestKeeps DEF AuthInv, RequestInv

LEMMA SendSmsKeeps ==
  ASSUME AuthInv, [Next]_vars, NEW r \in Requests, SendSms(r)
  PROVE  AuthInv'
  <1>1. RequestInv(r) /\ pc[r] = "drawn"
    BY DEF AuthInv, SendSms
  <1>2. number[r] \in Numbers /\ code[r] \in Codes /\ Subscriber[number[r]] \in People
    BY <1>1, SubscriberAssumption DEF RequestInv, Active
  <1>3. TypeOK'
    BY <1>2 DEF AuthInv, TypeOK, SendSms, Step, Active, Answers
  <1>4. RequestInv(r)'
    BY <1>1, <1>2 DEF AuthInv, TypeOK, SendSms, Step, RequestInv, Texted, Active
  <1>5. \A q \in Requests : q # r => RequestInv(q)'
    BY OthersKeep DEF SendSms
  <1>6. OneInsert'
    BY <1>1 DEF AuthInv, OneInsert, TypeOK, SendSms, Step
  <1>7. CacheInv'
    BY KnownStays DEF AuthInv, CacheInv, SendSms, Texted, Offered
  <1>8. AccountsFunded'
    BY DEF AuthInv, AccountsFunded, SendSms
  <1> QED BY <1>3, <1>4, <1>5, <1>6, <1>7, <1>8 DEF AuthInv

LEMMA StoreCodeKeeps ==
  ASSUME AuthInv, [Next]_vars, NEW r \in Requests, StoreCode(r)
  PROVE  AuthInv'
  <1>1. RequestInv(r) /\ pc[r] = "texted"
    BY DEF AuthInv, StoreCode
  <1>2. number[r] \in Numbers /\ password[r] \in Passwords \union {None}
    BY <1>1 DEF RequestInv, Active, AuthInv, TypeOK
  <1>0. code[r] \in Codes
    BY <1>1 DEF RequestInv
  <1>3. TypeOK'
    <2>1. [otp |-> code[r], hashedPassword |-> password[r]] \in Entry
      BY <1>0, <1>2 DEF Entry
    <2> QED BY <1>2, <2>1 DEF AuthInv, TypeOK, StoreCode, Step, Active, Answers
  <1>4. RequestInv(r)'
    BY <1>1 DEF AuthInv, TypeOK, StoreCode, Step, RequestInv, Active
  <1>5. \A q \in Requests : q # r => RequestInv(q)'
    BY OthersKeep DEF StoreCode
  <1>6. OneInsert'
    BY <1>1 DEF AuthInv, OneInsert, TypeOK, StoreCode, Step
  <1>7. CacheInv'
    <2> SUFFICES ASSUME NEW n \in Numbers, cache'[n] # NoEntry
                 PROVE  (Texted(n, cache[n].otp) /\ Offered(n, cache[n].otp, cache[n].hashedPassword))'
      BY DEF CacheInv
    <2>1. CASE n = number[r]
      <3>1. cache'[n].otp = code[r] /\ cache'[n].hashedPassword = password[r]
        BY <1>2, <2>1 DEF StoreCode, AuthInv, TypeOK
      <3>2. <<n, code[r]>> \in inbox'[Subscriber[n]]
        BY <1>1, <2>1 DEF RequestInv, Texted, StoreCode
      <3>3. /\ pc'[r] = "sent" /\ number'[r] = n
            /\ code'[r] = code[r] /\ password'[r] = password[r]
        BY <1>1, <2>1 DEF StoreCode, Step, AuthInv, TypeOK
      <3> QED BY <3>1, <3>2, <3>3 DEF Texted, Offered
    <2>2. CASE n # number[r]
      <3>1. cache'[n] = cache[n]
        BY <2>2 DEF StoreCode, AuthInv, TypeOK
      <3> DEFINE c == cache[n].otp
                 w == cache[n].hashedPassword
      <3>2. Texted(n, c) /\ Offered(n, c, w)
        BY <2>2, <3>1 DEF AuthInv, CacheInv
      <3>3. c' = c /\ w' = w
        BY <3>1
      <3> HIDE DEF c, w
      <3>4. Texted(n, c)' /\ Offered(n, c, w)'
        BY <3>2, <3>3, KnownStays DEF AuthInv, Texted, Offered
      <3> QED BY <3>4 DEF c, w
    <2> QED BY <2>1, <2>2
  <1>8. AccountsFunded'
    BY DEF AuthInv, AccountsFunded, StoreCode
  <1> QED BY <1>3, <1>4, <1>5, <1>6, <1>7, <1>8 DEF AuthInv

LEMMA InsertUserKeeps ==
  ASSUME AuthInv, [Next]_vars, NEW r \in Requests, InsertUser(r) \/ CreateFails(r)
  PROVE  AuthInv'
  <1> USE DEF InsertUser, CreateFails, Step
  <1>1. RequestInv(r) /\ pc[r] \in {"verified", "inserted"}
    BY DEF AuthInv
  <1>2. /\ pc'[r] \in {"inserted", "already"}
        /\ pc' = [pc EXCEPT ![r] = pc'[r]]
        /\ UNCHANGED <<account, gift, cache, inbox, number, code, password>>
        /\ pc'[r] = "inserted" => account[number[r]] = None
    BY DEF AuthInv, TypeOK
  <1>3. TypeOK'
    BY <1>2 DEF AuthInv, TypeOK, Active, Answers
  <1>4. RequestInv(r)'
    <2>1. number[r] \in Numbers
      BY <1>1 DEF RequestInv, Active
    <2>2. /\ Texted(number[r], code[r])
          /\ Offered(number[r], code[r], password[r])
      BY <1>1 DEF RequestInv
    <2>3. pc'[r] # "sent"
      BY <1>2
    <2>4. Offered(number[r], code[r], password[r])'
      BY <1>1, <1>2, <2>2 DEF Offered, AuthInv, TypeOK
    <2>5. Texted(number[r], code[r])'
      BY <1>2, <2>2 DEF Texted
    <2> HIDE DEF InsertUser, CreateFails
    <2> QED BY <1>1, <1>2, <2>1, <2>4, <2>5 DEF RequestInv, Active
  <1>5. \A q \in Requests : q # r => RequestInv(q)'
    BY OthersKeep
  <1>6. OneInsert'
    <2>1. pc'[r] = "inserted" => \A q \in Requests : ~(pc[q] = "inserted" /\ number[q] = number[r])
      BY DEF AuthInv, TypeOK
    <2> QED BY <1>2, <2>1 DEF AuthInv, OneInsert, TypeOK
  <1>7. CacheInv'
    BY <1>2, KnownStays DEF AuthInv, CacheInv, Texted, Offered
  <1>8. AccountsFunded'
    BY <1>2 DEF AuthInv, AccountsFunded
  <1> QED BY <1>3, <1>4, <1>5, <1>6, <1>7, <1>8 DEF AuthInv

(* The account of the request's number gets its password and, from           *)
(* CommitUser, its gift.                                                     *)
LEMMA AccountKeeps ==
  ASSUME AuthInv, [Next]_vars, NEW r \in Requests,
         CommitUser(r) \/ UpdatePassword(r) \/ ChangePassword(r)
  PROVE  AuthInv'
  <1> DEFINE n == number[r]
  <1>1. RequestInv(r) /\ pc[r] \in {"inserted", "resetting", "changing"}
    BY DEF AuthInv, CommitUser, UpdatePassword, ChangePassword
  <1>2. n \in Numbers /\ password[r] \in Passwords
    BY <1>1 DEF RequestInv, Active
  <1>3. /\ pc'[r] \in {"created", "reset", "changed"}
        /\ pc' = [pc EXCEPT ![r] = pc'[r]]
        /\ UNCHANGED <<cache, inbox, number, code, password>>
        /\ account' = [account EXCEPT ![n] = account'[n]]
        /\ account'[n] \in Passwords \union {None}
    BY <1>2 DEF AuthInv, TypeOK, CommitUser, UpdatePassword, ChangePassword, Step
  <1>4. /\ account[n] = None => \A q \in Requests : q # r /\ pc[q] = "inserted"
                                   => number[q] # n \/ account'[n] = None
        /\ account[n] # None => account'[n] # None
        /\ gift' = [gift EXCEPT ![n] = IF account'[n] = None THEN 0 ELSE Gift]
    <2>1. CASE CommitUser(r)
      <3>1. account[n] = None /\ account'[n] # None
        BY <1>1, <1>2, <2>1, NoneAssumption DEF CommitUser, RequestInv, AuthInv, TypeOK
      <3>2. gift[n] = 0 /\ gift' = [gift EXCEPT ![n] = gift[n] + Gift]
        BY <1>2, <2>1, <3>1 DEF CommitUser, AuthInv, AccountsFunded
      <3>3. \A q \in Requests : q # r /\ pc[q] = "inserted" => number[q] # n
        BY <2>1 DEF CommitUser, AuthInv, OneInsert
      <3> QED BY <3>1, <3>2, <3>3 DEF Gift
    <2>2. CASE UpdatePassword(r) \/ ChangePassword(r)
      <3>1. gift' = gift /\ (account[n] = None <=> account'[n] = None)
        <4>1. CASE UpdatePassword(r)
          BY <1>2, <4>1, NoneAssumption DEF UpdatePassword, AuthInv, TypeOK
        <4>2. CASE ChangePassword(r)
          <5>1. account[n] # None
            BY <1>1, <4>2 DEF ChangePassword, RequestInv
          <5> QED BY <1>2, <4>2, <5>1, NoneAssumption DEF ChangePassword, AuthInv, TypeOK
        <4> QED BY <2>2, <4>1, <4>2
      <3>2. gift[n] = IF account[n] = None THEN 0 ELSE Gift
        BY <1>2 DEF AuthInv, AccountsFunded
      <3>3. gift = [gift EXCEPT ![n] = gift[n]]
        BY DEF AuthInv, TypeOK
      <3> QED BY <3>1, <3>2, <3>3
    <2> QED BY <2>1, <2>2
  <1>5. TypeOK'
    BY <1>2, <1>3, <1>4 DEF AuthInv, TypeOK, Answers
  <1>6. RequestInv(r)'
    BY <1>1, <1>3 DEF RequestInv, Active, AuthInv, TypeOK
  <1>7. ASSUME NEW q \in Requests, q # r
        PROVE  RequestInv(q)'
    <2>1. UNCHANGED <<pc[q], number[q], code[q], password[q]>>
      BY <1>3, <1>7 DEF AuthInv, TypeOK
    <2>2. RequestInv(q)
      BY DEF AuthInv
    <2>3. pc[q] = "inserted" => account'[number[q]] = None
      BY <1>2, <1>3, <1>4, <1>7, <2>2 DEF RequestInv, AuthInv, TypeOK, Active
    <2>4. pc[q] = "changing" => account'[number[q]] # None
      BY <1>2, <1>3, <1>4, <2>2 DEF RequestInv, AuthInv, TypeOK, Active
    <2> QED BY <2>1, <2>3, <2>4, RequestKeeps
  <1>8. OneInsert'
    BY <1>3 DEF AuthInv, OneInsert, TypeOK
  <1>9. CacheInv'
    BY <1>3, KnownStays DEF AuthInv, CacheInv, Texted, Offered
  <1>10. AccountsFunded'
    BY <1>2, <1>3, <1>4 DEF AuthInv, TypeOK, AccountsFunded
  <1> QED BY <1>5, <1>6, <1>7, <1>8, <1>9, <1>10 DEF AuthInv

LEMMA AroundKeeps ==
  ASSUME AuthInv, [Next]_vars, UNCHANGED vars \/ (\E n \in Numbers : ExpireCode(n)) \/ Crash
  PROVE  AuthInv'
  <1>1. /\ UNCHANGED <<account, gift, inbox, number, code, password>>
        /\ \A q \in Requests : pc'[q] = pc[q] \/ (pc[q] \in Active /\ pc'[q] = "lost")
        /\ \A n \in Numbers : cache'[n] \in {cache[n], NoEntry}
        /\ TypeOK'
    <2> USE DEF AuthInv, TypeOK
    <2>1. CASE UNCHANGED vars
      BY <2>1 DEF vars
    <2>2. CASE \E n \in Numbers : ExpireCode(n)
      BY <2>2 DEF ExpireCode
    <2>3. CASE Crash
      BY <2>3 DEF Crash, Answers
    <2> QED BY <2>1, <2>2, <2>3
  <1>2. TypeOK'
    BY <1>1
  <1>3. ASSUME NEW q \in Requests
        PROVE  RequestInv(q)'
    <2>1. CASE pc'[q] = pc[q]
      BY <1>1, <2>1, RequestKeeps DEF AuthInv, RequestInv
    <2>2. CASE pc'[q] = "lost"
      BY <2>2 DEF RequestInv, Active
    <2> QED BY <1>1, <2>1, <2>2
  <1>4. OneInsert'
    BY <1>1 DEF AuthInv, OneInsert
  <1>5. CacheInv'
    <2> SUFFICES ASSUME NEW n \in Numbers, cache'[n] # NoEntry
                 PROVE  (Texted(n, cache[n].otp) /\ Offered(n, cache[n].otp, cache[n].hashedPassword))'
      BY DEF CacheInv
    <2>1. cache'[n] = cache[n]
      BY <1>1
    <2> DEFINE c == cache[n].otp
               w == cache[n].hashedPassword
    <2>2. Texted(n, c) /\ Offered(n, c, w)
      BY <2>1 DEF AuthInv, CacheInv
    <2>3. c' = c /\ w' = w
      BY <2>1
    <2> HIDE DEF c, w
    <2>4. Texted(n, c)' /\ Offered(n, c, w)'
      BY <2>2, <2>3, KnownStays DEF AuthInv, Texted, Offered
    <2> QED BY <2>4 DEF c, w
  <1>6. AccountsFunded'
    BY <1>1 DEF AuthInv, AccountsFunded
  <1> QED BY <1>2, <1>3, <1>4, <1>5, <1>6 DEF AuthInv

-----------------------------------------------------------------------------
(* AuthInv is inductive.                                                     *)
THEOREM AuthInvHolds == Spec => []AuthInv
  <1>1. AuthInv /\ [Next]_vars => AuthInv'
    <2> SUFFICES ASSUME AuthInv, [Next]_vars PROVE AuthInv'
      OBVIOUS
    <2>1. CASE \E r \in Requests : Start(r)
      BY <2>1, StartKeeps
    <2>2. CASE \E r \in Requests : Continue(r)
      BY <2>2, SendSmsKeeps, StoreCodeKeeps, InsertUserKeeps, AccountKeeps DEF Continue
    <2>3. CASE UNCHANGED vars \/ (\E n \in Numbers : ExpireCode(n)) \/ Crash
      BY <2>3, AroundKeeps
    <2> QED BY <2>1, <2>2, <2>3 DEF Next
  <1> QED BY <1>1, AuthInit, PTL DEF Spec

(* Requests, cache entries and accounts keep their shapes whatever overlaps, *)
(* fails or dies.                                                            *)
THEOREM TypeOKHolds == Spec => []TypeOK
  <1>1. AuthInv => TypeOK
    BY DEF AuthInv
  <1> QED BY <1>1, AuthInvHolds, PTL

(* No code can be used that was not sent to the phone of the number before.  *)
THEOREM CachedWasSentHolds == Spec => []CachedWasSent
  <1>1. AuthInv => CachedWasSent
    BY DEF AuthInv, CacheInv, Texted, CachedWasSent
  <1> QED BY <1>1, AuthInvHolds, PTL

(* However sign-ups of a number overlap, fail or die with the server, its    *)
(* account and its gift are there together and once.                         *)
THEOREM AccountsFundedHolds == Spec => []AccountsFunded
  <1>1. AuthInv => AccountsFunded
    BY DEF AuthInv
  <1> QED BY <1>1, AuthInvHolds, PTL

-----------------------------------------------------------------------------
(* Where passwords come from                                                 *)

(* Accounts are written by three steps only.                                 *)
LEMMA AccountWriters ==
  ASSUME [Next]_vars, account' # account
  PROVE  \E r \in Requests : CommitUser(r) \/ UpdatePassword(r) \/ ChangePassword(r)
  BY DEF Next, vars, Start, Continue, DrawCode, Signup, ResetPassword, UpdateUserPassword,
         Login, Begin, SendSms, StoreCode, InsertUser, CreateFails, ExpireCode, Crash

(* A new account has the password that was given with the code entered, also *)
(* when other codes were stored between the check and the INSERT.            *)
THEOREM SignupKeepsOfferHolds == Spec => SignupKeepsOffer
  <1> DEFINE Kept == \A n \in Numbers :
       account[n] = None /\ account'[n] # None =>
         \E r, q \in Requests :
           /\ pc'[r] = "created" /\ number[r] = n
           /\ pc[q] = "sent"
           /\ <<number[q], code[q], password[q]>> = <<n, code[r], account'[n]>>
  <1>1. AuthInv /\ [Next]_vars => [Kept]_vars
    <2> SUFFICES ASSUME AuthInv, [Next]_vars, NEW n \in Numbers,
                        account[n] = None, account'[n] # None
                 PROVE  \E r, q \in Requests :
                          /\ pc'[r] = "created" /\ number[r] = n
                          /\ pc[q] = "sent"
                          /\ <<number[q], code[q], password[q]>> = <<n, code[r], account'[n]>>
      OBVIOUS
    <2>1. PICK r \in Requests : CommitUser(r) \/ UpdatePassword(r) \/ ChangePassword(r)
      BY AccountWriters
    <2>2. RequestInv(r)
      BY DEF AuthInv
    <2>3. number[r] = n
      BY <2>1 DEF CommitUser, UpdatePassword, ChangePassword, AuthInv, TypeOK
    <2>4. CommitUser(r)
      BY <2>1, <2>2, <2>3 DEF UpdatePassword, ChangePassword, RequestInv, AuthInv, TypeOK
    <2>5. pc'[r] = "created" /\ account'[n] = password[r]
      BY <2>3, <2>4 DEF CommitUser, Step, AuthInv, TypeOK
    <2>6. Offered(n, code[r], password[r])
      BY <2>2, <2>3, <2>4 DEF RequestInv, CommitUser
    <2> QED BY <2>3, <2>5, <2>6 DEF Offered
  <1> QED BY <1>1, AuthInvHolds, PTL DEF Spec, SignupKeepsOffer

(* Nobody's password changes unless a code sent to the phone, or a password  *)
(* of the account, was given.                                                *)
THEOREM PasswordNeedsCodeHolds == Spec => PasswordNeedsCode
  <1> DEFINE Given == \A n \in Numbers :
       account'[n] # account[n] =>
         \E r \in Requests :
           /\ number[r] = n /\ pc'[r] # pc[r]
           /\ \/ <<n, code[r]>> \in inbox[Subscriber[n]]
              \/ pc[r] = "changing"
  <1>1. AuthInv /\ [Next]_vars => [Given]_vars
    <2> SUFFICES ASSUME AuthInv, [Next]_vars, NEW n \in Numbers, account'[n] # account[n]
                 PROVE  \E r \in Requests :
                          /\ number[r] = n /\ pc'[r] # pc[r]
                          /\ \/ <<n, code[r]>> \in inbox[Subscriber[n]]
                             \/ pc[r] = "changing"
      OBVIOUS
    <2>1. PICK r \in Requests : CommitUser(r) \/ UpdatePassword(r) \/ ChangePassword(r)
      BY AccountWriters
    <2>2. RequestInv(r)
      BY DEF AuthInv
    <2>3. number[r] = n
      BY <2>1 DEF CommitUser, UpdatePassword, ChangePassword, AuthInv, TypeOK
    <2>4. pc'[r] # pc[r]
      BY <2>1 DEF CommitUser, UpdatePassword, ChangePassword, Step, AuthInv, TypeOK
    <2>5. <<n, code[r]>> \in inbox[Subscriber[n]] \/ pc[r] = "changing"
      BY <2>1, <2>2, <2>3 DEF CommitUser, UpdatePassword, ChangePassword, RequestInv, Texted
    <2> QED BY <2>3, <2>4, <2>5
  <1> QED BY <1>1, AuthInvHolds, PTL DEF Spec, PasswordNeedsCode
=============================================================================
