-------------------------------- MODULE Auth --------------------------------
(***************************************************************************)
(* One-time passwords, sign-up, login and password changes                 *)
(* (auth.service.ts, user.service.ts, cache.service.ts, sms.service.ts).   *)
(*                                                                         *)
(* sendAndStoreOTP looks into the cache, sends the SMS, hashes the         *)
(* password and stores both, with other requests in between.  signup and   *)
(* resetPassword compare a code with the cached one; signup then creates   *)
(* user, wallet and gift in one transaction.  Accounts and cache entries   *)
(* are found by the phone number as it was typed.                          *)
(***************************************************************************)
EXTENDS Integers, FiniteSets

CONSTANTS
  Numbers,    \* phone numbers as users type them
  People,
  Subscriber, \* whose phone a number is
  Codes,      \* what otp-generator may draw
  Passwords,
  Requests,   \* requests, each made once
  Faults,     \* what may go wrong around the code
  None

ASSUME SubscriberAssumption == Subscriber \in [Numbers -> People]
ASSUME NoneAssumption == None \notin Passwords \union Codes \union Numbers

(* overlap: two requests at once; sms: the provider answers an error;        *)
(* database: a statement fails; crash: the server dies.                      *)
ASSUME FaultsAssumption == Faults \subseteq {"overlap", "sms", "database", "crash"}

VARIABLES
  account,     \* users: the password of a number, or None
  gift,        \* giftCredit of its wallet; 0 also if there is no wallet
  cache,       \* the entry otp:number, or NoEntry
  inbox,       \* codes sent to a person's phone, with the number asked for
  pc, number, code, password

vars == <<account, gift, cache, inbox, pc, number, code, password>>

Gift == 10
NoEntry == [otp |-> None, hashedPassword |-> None]
Entry == [otp : Codes, hashedPassword : Passwords \union {None}]
Active == {"drawn", "texted", "verified", "inserted", "resetting", "changing"}
Answers == {"sent", "created", "reset", "changed", "loggedIn", "alreadySent", "smsError",
            "invalid", "error", "missed", "already", "wrong", "lost"}

Init ==
  /\ account = [n \in Numbers |-> None]
  /\ gift = [n \in Numbers |-> 0]
  /\ cache = [n \in Numbers |-> NoEntry]
  /\ inbox = [p \in People |-> {}]
  /\ pc = [r \in Requests |-> "new"]
  /\ number = [r \in Requests |-> None]
  /\ code = [r \in Requests |-> None]
  /\ password = [r \in Requests |-> None]

-----------------------------------------------------------------------------
Step(r, to) == pc' = [pc EXCEPT ![r] = to]

(* The body of a request: DTO validation refuses one without its fields. *)
Begin(r, n, c, w, to) ==
  /\ pc[r] = "new"
  /\ "overlap" \in Faults \/ \A q \in Requests : pc[q] \notin Active
  /\ number' = [number EXCEPT ![r] = n]
  /\ code' = [code EXCEPT ![r] = c]
  /\ password' = [password EXCEPT ![r] = w]
  /\ Step(r, to)
  /\ UNCHANGED <<account, gift, cache, inbox>>

-----------------------------------------------------------------------------
(* sendAndStoreOTP *)

(* The password is optional: a reset asks for a code without one. *)
DrawCode(r) ==
  \E n \in Numbers, c \in Codes, w \in Passwords \union {None} :
    Begin(r, n, c, w, IF cache[n] # NoEntry THEN "alreadySent" ELSE "drawn")

(* As if the code were stored first. *)
StoreFirstMutant(r) ==
  /\ pc[r] = "drawn"
  /\ cache' = [cache EXCEPT ![number[r]] = [otp |-> code[r], hashedPassword |-> password[r]]]
  /\ Step(r, "texted")
  /\ UNCHANGED <<account, gift, inbox, number, code, password>>

(* An error status rejects; the text may have been delivered. *)
SendSms(r) ==
  LET sent == [inbox EXCEPT ![Subscriber[number[r]]] = @ \union {<<number[r], code[r]>>}] IN
  /\ pc[r] = "drawn"
  /\ \/ inbox' = sent /\ Step(r, "texted")
     \/ "sms" \in Faults /\ inbox' \in {inbox, sent} /\ Step(r, "smsError")
  /\ UNCHANGED <<account, gift, cache, number, code, password>>

(* The password is hashed meanwhile; whatever was stored is overwritten. *)
StoreCode(r) ==
  /\ pc[r] = "texted"
  /\ cache' = [cache EXCEPT ![number[r]] = [otp |-> code[r], hashedPassword |-> password[r]]]
  /\ Step(r, "sent")
  /\ UNCHANGED <<account, gift, inbox, number, code, password>>

-----------------------------------------------------------------------------
(* signup *)

(* As if the comparison were left out. *)
UncheckedMutant(n, c, ok) == IF cache[n] = NoEntry THEN "error" ELSE ok

(* getValidatedUserFromCache: of an expired entry null is left, and reading  *)
(* its otp throws.                                                           *)
Verdict(n, c, ok) ==
  CASE cache[n] = NoEntry -> "error"
    [] cache[n] # NoEntry /\ cache[n].otp # c -> "invalid"
    [] OTHER -> ok

Signup(r) ==
  \E n \in Numbers, c \in Codes :
    Begin(r, n, c, cache[n].hashedPassword,
          Verdict(n, c, IF cache[n].hashedPassword = None THEN "missed" ELSE "verified"))

(* As if the entry were fetched again for its password. *)
RereadMutant(r) ==
  /\ pc[r] = "verified"
  /\ \A q \in Requests : ~(pc[q] = "inserted" /\ number[q] = number[r])
  /\ Step(r, IF account[number[r]] = None THEN "inserted" ELSE "already")
  /\ password' = [password EXCEPT ![r] = cache[number[r]].hashedPassword]
  /\ UNCHANGED <<account, gift, cache, inbox, number, code>>

(* As if the phone column were not unique. *)
NotUniqueMutant(r) ==
  /\ pc[r] = "verified"
  /\ Step(r, "inserted")
  /\ UNCHANGED <<account, gift, cache, inbox, number, code, password>>

(* As if createOne were not @Transactional. *)
InsertAtOnceMutant(r) ==
  /\ pc[r] = "verified"
  /\ Step(r, IF account[number[r]] = None THEN "inserted" ELSE "already")
  /\ account' = [account EXCEPT ![number[r]] = IF @ = None THEN password[r] ELSE @]
  /\ UNCHANGED <<gift, cache, inbox, number, code, password>>

(* users.phone is unique: an INSERT waits for an open one of the same number *)
(* and fails if it commits.  Whatever it was, the exception says "already".  *)
InsertUser(r) ==
  /\ pc[r] = "verified"
  /\ \A q \in Requests : ~(pc[q] = "inserted" /\ number[q] = number[r])
  /\ Step(r, IF account[number[r]] = None THEN "inserted" ELSE "already")
  /\ UNCHANGED <<account, gift, cache, inbox, number, code, password>>

(* Wallet and gift, then COMMIT; the access token is signed afterwards. *)
CommitUser(r) ==
  LET n == number[r] IN
  /\ pc[r] = "inserted"
  /\ account' = [account EXCEPT ![n] = password[r]]
  /\ gift' = [gift EXCEPT ![n] = @ + Gift]
  /\ Step(r, "created")
  /\ UNCHANGED <<cache, inbox, number, code, password>>

(* Any other failure of createOne rolls back and is also called "already". *)
CreateFails(r) ==
  /\ "database" \in Faults
  /\ pc[r] \in {"verified", "inserted"}
  /\ Step(r, "already")
  /\ UNCHANGED <<account, gift, cache, inbox, number, code, password>>

-----------------------------------------------------------------------------
(* resetPassword, updateUserPassword, login *)

ResetPassword(r) ==
  \E n \in Numbers, c \in Codes, w \in Passwords :
    Begin(r, n, c, w, Verdict(n, c, "resetting"))

(* update() by phone: no row, no error. *)
UpdatePassword(r) ==
  /\ pc[r] = "resetting"
  /\ account' = [account EXCEPT ![number[r]] = IF @ = None THEN None ELSE password[r]]
  /\ Step(r, "reset")
  /\ UNCHANGED <<gift, cache, inbox, number, code, password>>

(* The user, logged in, gives the present password and a new one. *)
UpdateUserPassword(r) ==
  \E n \in {m \in Numbers : account[m] # None}, old, w \in Passwords :
    Begin(r, n, None, w, IF account[n] = old THEN "changing" ELSE "wrong")

ChangePassword(r) ==
  /\ pc[r] = "changing"
  /\ account' = [account EXCEPT ![number[r]] = password[r]]
  /\ Step(r, "changed")
  /\ UNCHANGED <<gift, cache, inbox, number, code, password>>

(* validateUser, then a token for whoever was found. *)
Login(r) ==
  \E n \in Numbers, w \in Passwords :
    Begin(r, n, None, w, IF account[n] = w THEN "loggedIn" ELSE "wrong")

-----------------------------------------------------------------------------
(* Redis drops the entry after 120 seconds. *)
ExpireCode(n) ==
  /\ cache[n] # NoEntry
  /\ cache' = [cache EXCEPT ![n] = NoEntry]
  /\ UNCHANGED <<account, gift, inbox, pc, number, code, password>>

(* The process ends; PostgreSQL rolls back. *)
Crash ==
  /\ "crash" \in Faults
  /\ \E r \in Requests : pc[r] \in Active
  /\ pc' = [r \in Requests |-> IF pc[r] \in Active THEN "lost" ELSE pc[r]]
  /\ UNCHANGED <<account, gift, cache, inbox, number, code, password>>

Start(r) ==
  DrawCode(r) \/ Signup(r) \/ ResetPassword(r) \/ UpdateUserPassword(r) \/ Login(r)

Continue(r) ==
  \/ SendSms(r) \/ StoreCode(r) \/ InsertUser(r) \/ CommitUser(r)
  \/ CreateFails(r) \/ UpdatePassword(r) \/ ChangePassword(r)

Next ==
  \/ \E r \in Requests : Start(r) \/ Continue(r)
  \/ \E n \in Numbers : ExpireCode(n)
  \/ Crash

Spec == Init /\ [][Next]_vars

-----------------------------------------------------------------------------
(* What holds whatever goes wrong.                                           *)

TypeOK ==
  /\ account \in [Numbers -> Passwords \union {None}]
  /\ gift \in [Numbers -> {0, Gift}]
  /\ cache \in [Numbers -> Entry \union {NoEntry}]
  /\ inbox \in [People -> SUBSET (Numbers \X Codes)]
  /\ pc \in [Requests -> {"new"} \union Active \union Answers]
  /\ number \in [Requests -> Numbers \union {None}]
  /\ code \in [Requests -> Codes \union {None}]
  /\ password \in [Requests -> Passwords \union {None}]

(* A code that opens an account was sent to the phone of that number, and    *)
(* was sent before it could be used (auth.service.ts:74,79).                 *)
CachedWasSent ==
  \A n \in Numbers :
    cache[n] # NoEntry => <<n, cache[n].otp>> \in inbox[Subscriber[n]]

(* An account has a wallet with its gift, once, however sign-ups of one      *)
(* number overlap, fail or die (user.service.ts:50-59).                      *)
AccountsFunded ==
  \A n \in Numbers : gift[n] = IF account[n] = None THEN 0 ELSE Gift

(* A new account gets the password that was submitted with the very code     *)
(* that was entered, although other codes may have been stored since.        *)
SignupKeepsOffer ==
  [][\A n \in Numbers :
       account[n] = None /\ account'[n] # None =>
         \E r, q \in Requests :
           /\ pc'[r] = "created" /\ number[r] = n
           /\ pc[q] = "sent"
           /\ <<number[q], code[q], password[q]>> = <<n, code[r], account'[n]>>]_vars

(* A password is replaced only by someone who has a code that was sent to    *)
(* the number, or by a user who knew a password of the account.              *)
PasswordNeedsCode ==
  [][\A n \in Numbers :
       account'[n] # account[n] =>
         \E r \in Requests :
           /\ number[r] = n /\ pc'[r] # pc[r]
           /\ \/ <<n, code[r]>> \in inbox[Subscriber[n]]
              \/ pc[r] = "changing"]_vars
=============================================================================
