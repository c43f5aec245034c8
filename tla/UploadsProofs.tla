--------------------------- MODULE UploadsProofs ---------------------------
(***************************************************************************)
(* Proof that only allowed files are saved (Uploads.tla), for any files,   *)
(* packages and requests, and of what their pages are counted as.          *)
(***************************************************************************)
EXTENDS Uploads, WellFoundedInduction, TLAPS

Large(f) ==
  \/ \E max \in Packages : Fits(f, max)
  \/ live = {} /\ Fits(f, DefaultMax)

(* What each check has established stays so while packages expire: a package *)
(* that allowed the size was bought, and what is gone does not come back.    *)
AllowedInv ==
  /\ live \subseteq Packages
  /\ stage \in [Uploads -> {"new"} \union Busy \union Ended]
  /\ \A u \in Uploads :
       /\ stage[u] \in Busy \union {"saved"} => IsValid(file[u])
       /\ stage[u] \in (Busy \ {"formatted"}) \union {"saved"} => Large(file[u])
       /\ stage[u] \in {"counting", "counted", "removing"} => file[u].mime = "pdf"
       /\ stage[u] \in {"counted", "removing"} => file[u].code = 0
       /\ stage[u] = "saved" /\ file[u].mime = "pdf" => file[u].code = 0

LEMMA AllowedInit == Init => AllowedInv
  BY DEF Init, AllowedInv, Busy, Ended

(* A step that leaves the files alone, takes no package back, and moves one  *)
(* upload on as far as its check allows.                                     *)
LEMMA StepKeeps ==
  ASSUME AllowedInv, NEW u \in Uploads, NEW to \in Busy \union Ended, Step(u, to),
         file' = file, live' = live,
         to \in Busy \union {"saved"} => IsValid(file[u]),
         to \in (Busy \ {"formatted"}) \union {"saved"} => Large(file[u]),
         to \in {"counting", "counted", "removing"} => file[u].mime = "pdf",
         to \in {"counted", "removing"} => file[u].code = 0,
         to = "saved" /\ file[u].mime = "pdf" => file[u].code = 0
  PROVE  AllowedInv'
  <1>1. stage' \in [Uploads -> {"new"} \union Busy \union Ended]
    BY DEF AllowedInv, Step
  <1>2. stage'[u] = to /\ \A v \in Uploads : v # u => stage'[v] = stage[v]
    BY DEF AllowedInv, Step
  <1>3. \A v \in Uploads : Large(file[v]) => Large(file[v])'
    BY DEF Large
  <1> QED BY <1>1, <1>2, <1>3 DEF AllowedInv

LEMMA DieKeeps ==
  ASSUME AllowedInv, Die
  PROVE  AllowedInv'
  <1>1. \A v \in Uploads : Large(file[v]) => Large(file[v])'
    BY DEF Die, Large
  <1>2. \A v \in Uploads : stage'[v] = "lost" \/ stage'[v] = stage[v]
    BY DEF Die, AllowedInv
  <1>3. stage' \in [Uploads -> {"new"} \union Busy \union Ended]
    BY DEF Die, AllowedInv, Ended
  <1>4. file' = file /\ live' = live
    BY DEF Die
  <1> QED BY <1>1, <1>2, <1>3, <1>4 DEF AllowedInv, Busy

LEMMA ServeKeeps ==
  ASSUME AllowedInv, NEW u \in Uploads, Serve(u)
  PROVE  AllowedInv'
  <1> USE DEF Busy, Ended
  <1>1. CASE Validate(u)
    BY <1>1, StepKeeps DEF Validate
  <1>2. CASE CheckSize(u)
    <2>1. PICK max \in live \union {DefaultMax} :
            /\ FindMaxUploadSize(max)
            /\ Step(u, IF Fits(file[u], max) THEN "allowed" ELSE "refused")
      BY <1>2 DEF CheckSize
    <2>2. Fits(file[u], max) => Large(file[u])
      BY <2>1 DEF FindMaxUploadSize, Large, AllowedInv
    <2>3. IsValid(file[u]) /\ file' = file /\ live' = live
      BY <1>2 DEF CheckSize, AllowedInv
    <2> QED BY <2>1, <2>2, <2>3, StepKeeps
  <1>3. CASE SpawnPdfInfo(u)
    BY <1>3, StepKeeps DEF SpawnPdfInfo, AllowedInv
  <1>4. CASE Stdout(u) \/ Stderr(u)
    <2>1. file' = file /\ live' = live /\ stage' = stage
      BY <1>4 DEF Stdout, Stderr, Event
    <2> QED BY <2>1 DEF AllowedInv, Large
  <1>5. CASE Exit(u)
    <2>1. stage[u] = "counting"
      BY <1>5 DEF Exit
    <2>2. IsValid(file[u]) /\ Large(file[u]) /\ file[u].mime = "pdf"
      BY <2>1 DEF AllowedInv
    <2>3. \/ Die
          \/ Step(u, "refused") /\ file' = file /\ live' = live
          \/ Step(u, "removing") /\ file' = file /\ live' = live /\ file[u].code = 0
      BY <1>5 DEF Exit
    <2> QED BY <2>2, <2>3, StepKeeps, DieKeeps
  <1>6. CASE RemoveTemp(u)
    BY <1>6, StepKeeps, DieKeeps DEF RemoveTemp, AllowedInv
  <1>7. CASE SaveDocument(u)
    BY <1>7, StepKeeps DEF SaveDocument, AllowedInv
  <1>8. CASE UploadFails(u)
    BY <1>8, StepKeeps DEF UploadFails
  <1> QED BY <1>1, <1>2, <1>3, <1>4, <1>5, <1>6, <1>7, <1>8 DEF Serve

(* AllowedInv is inductive.                                                  *)
LEMMA Allowing == AllowedInv /\ [Next]_vars => AllowedInv'
  <1> SUFFICES ASSUME AllowedInv, [Next]_vars PROVE AllowedInv'
    OBVIOUS
  <1>1. CASE \E u \in Uploads : Serve(u)
    BY <1>1, ServeKeeps
  <1>2. CASE UNCHANGED vars
    BY <1>2 DEF vars, AllowedInv, Large
  <1>3. CASE PackageExpires
    <2>1. file' = file /\ stage' = stage /\ live' \subseteq live
      BY <1>3 DEF PackageExpires
    <2>2. \A u \in Uploads : Large(file[u]) => Large(file[u])'
      BY <2>1 DEF Large
    <2> QED BY <2>1, <2>2 DEF AllowedInv
  <1>4. CASE Crash
    BY <1>4, DieKeeps DEF Crash
  <1> QED BY <1>1, <1>2, <1>3, <1>4 DEF Next

(* However uploads, expiring packages and deaths of the server interleave,   *)
(* no file is saved that was not valid and within a limit of the user.       *)
THEOREM SavedWasAllowedHolds == Spec => []SavedWasAllowed
  <1>1. AllowedInv => SavedWasAllowed
    <2> SUFFICES ASSUME AllowedInv, NEW u \in Uploads, stage[u] = "saved"
                 PROVE  /\ Large(file[u])
                        /\ file[u].mime = "pdf" => file[u].code = 0 /\ file[u].trailer
                        /\ file[u].mime = "image" => file[u].decodes
      BY DEF SavedWasAllowed, Large
    <2>1. IsValid(file[u]) /\ Large(file[u])
      BY DEF AllowedInv
    <2>2. file[u].mime = "pdf" => file[u].code = 0
      BY DEF AllowedInv
    <2>3. file[u].mime = "image" => file[u].decodes
      BY <2>1 DEF IsValid, IsImageValid
    <2>4. file[u].mime = "pdf" => file[u].trailer
      BY <2>1 DEF IsValid, IsPdfValid
    <2> QED BY <2>1, <2>2, <2>3, <2>4
  <1> QED BY <1>1, Allowing, AllowedInit, PTL DEF Spec

-----------------------------------------------------------------------------
(* What the leading digit is.  Smallest counterexamples take the place of   *)
(* inductions over numbers.                                                 *)
LEMMA SmallestOf ==
  ASSUME NEW T, T \subseteq Nat, T # {}
  PROVE  \E n \in T : \A m \in T : n <= m
  <1>1. PICK n \in T : \A m \in T : <<m, n>> \notin OpToRel(<, Nat)
    BY NatLessThanWellFounded, WFMin
  <1>2. \A m \in T : ~ (m < n)
    BY <1>1 DEF OpToRel
  <1>3. QED
    BY <1>2

(* All digits but the last are a smaller number.                            *)
LEMMA Tenth ==
  ASSUME NEW n \in Nat, ~ (n < 10)
  PROVE  n \div 10 \in Nat /\ n \div 10 < n
  OBVIOUS

(* g computes the leading digit of every number up to n.                    *)
LeadsUpTo(g, n) ==
  \A k \in 0..n : g[k] = IF k < 10 THEN k ELSE g[k \div 10]

(* For every bound there is one.                                            *)
LEMMA LeadsExist ==
  ASSUME NEW n \in Nat
  PROVE  \E g \in [Nat -> Nat] : LeadsUpTo(g, n)
  <1> DEFINE Bad == {k \in Nat : ~ \E g \in [Nat -> Nat] : LeadsUpTo(g, k)}
  <1>1. SUFFICES ASSUME Bad # {} PROVE FALSE
    BY <1>1
  <1>2. PICK k \in Bad : \A m \in Bad : k <= m
    <2>1. Bad \subseteq Nat
      OBVIOUS
    <2> HIDE DEF Bad
    <2> QED BY <1>1, <2>1, SmallestOf
  <1> DEFINE id == [m \in Nat |-> m]
  <1>3. id \in [Nat -> Nat] /\ LeadsUpTo(id, 0)
    BY DEF LeadsUpTo
  <1>4. k # 0
    BY <1>3
  <1>5. k - 1 \in Nat /\ k - 1 \notin Bad
    BY <1>2, <1>4
  <1>6. PICK g \in [Nat -> Nat] : LeadsUpTo(g, k - 1)
    BY <1>5
  <1> DEFINE h == [m \in Nat |-> IF m = k THEN (IF m < 10 THEN m ELSE g[m \div 10]) ELSE g[m]]
  <1>7. h \in [Nat -> Nat]
    BY Tenth
  <1>8. LeadsUpTo(h, k)
    <2> SUFFICES ASSUME NEW m \in 0..k PROVE h[m] = IF m < 10 THEN m ELSE h[m \div 10]
      BY DEF LeadsUpTo
    <2>1. m \in Nat /\ k \in Nat /\ (~ (m < 10) => m \div 10 \in Nat /\ m \div 10 # k)
      BY Tenth
    <2>2. CASE m = k
      BY <2>1, <2>2
    <2>3. CASE m # k
      <3>1. m \in 0..(k - 1)
        BY <2>3
      <3>2. g[m] = IF m < 10 THEN m ELSE g[m \div 10]
        BY <1>6, <3>1 DEF LeadsUpTo
      <3>3. QED
        BY <2>1, <2>3, <3>2
    <2>4. QED
      BY <2>2, <2>3
  <1>9. QED
    BY <1>7, <1>8

(* Two such functions agree.                                                *)
LEMMA LeadsUnique ==
  ASSUME NEW n \in Nat, NEW g, LeadsUpTo(g, n), NEW m \in Nat, NEW h, LeadsUpTo(h, m),
         n <= m
  PROVE  \A k \in 0..n : g[k] = h[k]
  <1> DEFINE Bad == {k \in 0..n : g[k] # h[k]}
  <1>1. SUFFICES ASSUME Bad # {} PROVE FALSE
    BY <1>1
  <1>2. PICK k \in Bad : \A j \in Bad : k <= j
    <2>1. Bad \subseteq Nat
      OBVIOUS
    <2> HIDE DEF Bad
    <2> QED BY <1>1, <2>1, SmallestOf
  <1>3. k \in 0..n /\ k \in 0..m /\ k \in Nat
    OBVIOUS
  <1>4. /\ g[k] = IF k < 10 THEN k ELSE g[k \div 10]
        /\ h[k] = IF k < 10 THEN k ELSE h[k \div 10]
    BY <1>3 DEF LeadsUpTo
  <1>5. ~ (k < 10)
    BY <1>4
  <1>6. k \div 10 \in 0..n /\ k \div 10 < k
    BY <1>3, <1>5, Tenth
  <1>7. k \div 10 \notin Bad
    BY <1>2, <1>3, <1>6
  <1>8. QED
    BY <1>4, <1>6, <1>7

(* FirstDigit does what its definition says.                                *)
LEMMA FirstDigitUnfold ==
  \A n \in Nat : FirstDigit[n] = IF n < 10 THEN n ELSE FirstDigit[n \div 10]
  <1> DEFINE E(f) == f = [n \in Nat |-> IF n < 10 THEN n ELSE f[n \div 10]]
             lead(n) == CHOOSE g \in [Nat -> Nat] : LeadsUpTo(g, n)
             F == [n \in Nat |-> lead(n)[n]]
  <1>1. ASSUME NEW n \in Nat PROVE lead(n) \in [Nat -> Nat] /\ LeadsUpTo(lead(n), n)
    BY LeadsExist
  <1> HIDE DEF lead
  <1>2. ASSUME NEW n \in Nat PROVE F[n] = IF n < 10 THEN n ELSE F[n \div 10]
    <2>1. F[n] = IF n < 10 THEN n ELSE lead(n)[n \div 10]
      BY <1>1 DEF LeadsUpTo
    <2>2. ASSUME ~ (n < 10) PROVE lead(n)[n \div 10] = F[n \div 10]
      <3> DEFINE k == n \div 10
      <3>1. k \in Nat /\ k <= n /\ k \in 0..k
        BY <2>2, Tenth
      <3> HIDE DEF k
      <3>2. lead(k)[k] = lead(n)[k]
        BY <1>1, <3>1, LeadsUnique
      <3>3. F[k] = lead(k)[k]
        BY <3>1
      <3>4. QED
        BY <3>2, <3>3 DEF k
    <2>3. QED
      BY <2>1, <2>2
  <1>3. F = [n \in Nat |-> IF n < 10 THEN n ELSE F[n \div 10]]
    <2>1. \A n \in Nat : F[n] = IF n < 10 THEN n ELSE F[n \div 10]
      BY <1>2
    <2>2. F = [n \in Nat |-> F[n]]
      OBVIOUS
    <2> HIDE DEF F
    <2> QED BY <2>1, <2>2
  <1>4. E(CHOOSE f : E(f))
    <2>1. E(F)
      BY <1>3
    <2> HIDE DEF E
    <2> QED BY <2>1
  <1>5. FirstDigit = CHOOSE f : E(f)
    BY Zenon DEF FirstDigit
  <1>6. E(FirstDigit)
    <2> HIDE DEF E
    <2> QED BY <1>4, <1>5
  <1>7. QED
    BY <1>6

(* The leading digit is no more than the number.                            *)
LEMMA FirstDigitBound ==
  \A n \in Nat : FirstDigit[n] \in Nat /\ FirstDigit[n] <= n
  <1> DEFINE Bad == {n \in Nat : ~ (FirstDigit[n] \in Nat /\ FirstDigit[n] <= n)}
  <1>1. SUFFICES ASSUME Bad # {} PROVE FALSE
    BY <1>1
  <1>2. PICK k \in Bad : \A j \in Bad : k <= j
    <2>1. Bad \subseteq Nat
      OBVIOUS
    <2> HIDE DEF Bad
    <2> QED BY <1>1, <2>1, SmallestOf
  <1>3. ~ (k < 10)
    BY FirstDigitUnfold
  <1>4. k \div 10 \in Nat /\ k \div 10 < k
    BY <1>3, Tenth
  <1>5. k \div 10 \notin Bad
    BY <1>2, <1>4
  <1>6. FirstDigit[k \div 10] \in Nat /\ FirstDigit[k \div 10] <= k \div 10
    BY <1>4, <1>5
  <1>7. FirstDigit[k] = FirstDigit[k \div 10]
    BY <1>3, FirstDigitUnfold
  <1>8. QED
    BY <1>4, <1>6, <1>7

-----------------------------------------------------------------------------
(* Once counted, a PDF has a first digit that is not 0; once saved, its      *)
(* pages are at least 1 and, without a digit of its metadata, at most what   *)
(* the file has.                                                             *)
CountedInv ==
  /\ file \in [Uploads -> Files]
  /\ pageCount \in [Uploads -> Int]
  /\ \A u \in Uploads :
       /\ stage[u] \in {"counted", "removing"} => PagesMatched(file[u]) # 0
       /\ stage[u] = "saved" =>
            /\ pageCount[u] >= 1
            /\ file[u].mime = "pdf" /\ file[u].metadata = 0 =>
                 pageCount[u] <= file[u].pages

(* What pdfinfo's output is read as is never more than the pages it names,   *)
(* if the metadata does not come in between.                                 *)
LEMMA MatchedBound ==
  ASSUME NEW f \in Files
  PROVE  /\ PagesMatched(f) \in Nat
         /\ f.metadata = 0 => PagesMatched(f) <= f.pages
  <1>1. f.pages \in Nat /\ f.metadata \in Nat
    BY FilesAssumption DEF FileType
  <1> QED BY <1>1, FirstDigitBound DEF PagesMatched

(* A step that saves nothing.                                                *)
LEMMA UnsavedKeeps ==
  ASSUME AllowedInv, CountedInv, NEW u \in Uploads, NEW to, Step(u, to),
         file' = file, pageCount' = pageCount, to # "saved",
         to \in {"counted", "removing"} => PagesMatched(file[u]) # 0
  PROVE  CountedInv'
  <1>1. stage'[u] = to /\ \A v \in Uploads : v # u => stage'[v] = stage[v]
    BY DEF AllowedInv, Step
  <1>2. \A v \in Uploads : PagesMatched(file[v])' = PagesMatched(file[v])
    BY DEF PagesMatched
  <1> QED BY <1>1, <1>2 DEF CountedInv

LEMMA DieCounts ==
  ASSUME AllowedInv, CountedInv, Die
  PROVE  CountedInv'
  <1>1. \A v \in Uploads : stage'[v] = "lost" \/ stage'[v] = stage[v]
    BY DEF Die, AllowedInv
  <1>2. file' = file /\ pageCount' = pageCount
    BY DEF Die
  <1>3. \A v \in Uploads : PagesMatched(file[v])' = PagesMatched(file[v])
    BY <1>2 DEF PagesMatched
  <1> QED BY <1>1, <1>2, <1>3 DEF CountedInv

LEMMA ServeCounts ==
  ASSUME AllowedInv, CountedInv, NEW u \in Uploads, Serve(u)
  PROVE  CountedInv'
  <1>1. CASE Validate(u)
    BY <1>1, UnsavedKeeps DEF Validate
  <1>2. CASE CheckSize(u)
    <2>1. PICK max : Step(u, IF Fits(file[u], max) THEN "allowed" ELSE "refused")
      BY <1>2 DEF CheckSize
    <2>2. file' = file /\ pageCount' = pageCount
      BY <1>2 DEF CheckSize
    <2> QED BY <2>1, <2>2, UnsavedKeeps
  <1>3. CASE SpawnPdfInfo(u)
    BY <1>3, UnsavedKeeps DEF SpawnPdfInfo
  <1>4. CASE Stdout(u) \/ Stderr(u)
    <2>1. file' = file /\ pageCount' = pageCount /\ stage' = stage
      BY <1>4 DEF Stdout, Stderr, Event
    <2>2. \A v \in Uploads : PagesMatched(file[v])' = PagesMatched(file[v])
      BY <2>1 DEF PagesMatched
    <2> QED BY <2>1, <2>2 DEF CountedInv
  <1>5. CASE Exit(u)
    <2>1. \/ Die
          \/ Step(u, "refused") /\ file' = file /\ pageCount' = pageCount
          \/ /\ Step(u, "removing") /\ file' = file /\ pageCount' = pageCount
             /\ PagesMatched(file[u]) # 0
      BY <1>5 DEF Exit
    <2> QED BY <2>1, UnsavedKeeps, DieCounts
  <1>6. CASE RemoveTemp(u)
    <2>1. PagesMatched(file[u]) # 0
      BY <1>6 DEF RemoveTemp, CountedInv
    <2> QED BY <1>6, <2>1, UnsavedKeeps, DieCounts DEF RemoveTemp
  <1>7. CASE SaveDocument(u)
    <2> DEFINE n == IF file[u].mime = "pdf" THEN PagesMatched(file[u]) ELSE 1
    <2>1. /\ file' = file /\ Step(u, "saved")
          /\ pageCount' = [pageCount EXCEPT ![u] = n]
      BY <1>7 DEF SaveDocument
    <2>2. file[u] \in Files
      BY DEF CountedInv
    <2>3. file[u].mime = "pdf" => PagesMatched(file[u]) # 0
      BY <1>7 DEF SaveDocument, CountedInv
    <2>4. /\ n \in Int /\ n >= 1
          /\ file[u].mime = "pdf" /\ file[u].metadata = 0 => n <= file[u].pages
      BY <2>2, <2>3, MatchedBound
    <2>5. /\ stage'[u] = "saved"
          /\ \A v \in Uploads : v # u => stage'[v] = stage[v]
      BY <2>1 DEF AllowedInv, Step
    <2>6. \A v \in Uploads : PagesMatched(file[v])' = PagesMatched(file[v])
      BY <2>1 DEF PagesMatched
    <2> HIDE DEF n
    <2>7. /\ pageCount' \in [Uploads -> Int] /\ pageCount'[u] = n
          /\ \A v \in Uploads : v # u => pageCount'[v] = pageCount[v]
      BY <2>1, <2>4 DEF CountedInv
    <2> QED BY <2>1, <2>4, <2>5, <2>6, <2>7 DEF CountedInv
  <1>8. CASE UploadFails(u)
    BY <1>8, UnsavedKeeps DEF UploadFails
  <1> QED BY <1>1, <1>2, <1>3, <1>4, <1>5, <1>6, <1>7, <1>8 DEF Serve

(* However pdfinfo's events, other uploads and deaths of the server          *)
(* interleave, a saved document costs at least one page, and no more than    *)
(* its file has unless a digit of its metadata is taken for the pages.       *)
THEOREM PagesWithinFileHolds == Spec => []PagesWithinFile
  <1>1. Init => CountedInv
    BY DEF Init, CountedInv
  <1>2. AllowedInv /\ CountedInv /\ [Next]_vars => CountedInv'
    <2> SUFFICES ASSUME AllowedInv, CountedInv, [Next]_vars PROVE CountedInv'
      OBVIOUS
    <2>1. CASE \E u \in Uploads : Serve(u)
      BY <2>1, ServeCounts
    <2>2. CASE UNCHANGED vars \/ PackageExpires
      <3>1. file' = file /\ pageCount' = pageCount /\ stage' = stage
        BY <2>2 DEF vars, PackageExpires
      <3>2. \A v \in Uploads : PagesMatched(file[v])' = PagesMatched(file[v])
        BY <3>1 DEF PagesMatched
      <3> QED BY <3>1, <3>2 DEF CountedInv
    <2>3. CASE Crash
      BY <2>3, DieCounts DEF Crash
    <2> QED BY <2>1, <2>2, <2>3 DEF Next
  <1>3. CountedInv => PagesWithinFile
    BY DEF CountedInv, PagesWithinFile
  <1> QED BY <1>1, <1>2, <1>3, AllowedInit, Allowing, PTL DEF Spec
=============================================================================
