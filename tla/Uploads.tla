------------------------------ MODULE Uploads ------------------------------
(***************************************************************************)
(* Uploads of documents up to their first row: the format is validated     *)
(* (document.validator.ts), the size compared with what the user's         *)
(* packages allow (document-size.pipe.ts, findMaxUploadSize), the pages of *)
(* a PDF counted by a pdfinfo process (utils/pdf.ts), the row saved        *)
(* (createDocument).  Documents.tla goes on from the row.                  *)
(*                                                                         *)
(* pdfinfo speaks to the server by events, each a callback of its own: its *)
(* output, its warnings, its exit.                                         *)
(***************************************************************************)
EXTENDS Integers, FiniteSets

CONSTANTS
  Uploads,     \* requests
  Files,       \* what may be uploaded, records of FileType
  Packages,    \* packages the user holds at first, records of limits
  DefaultMax,  \* the limits without a package
  NoLimit,     \* a column that is null
  Faults

(* early: pdfinfo exits before its output is read; expire: packages do;      *)
(* storage: the disk or the database fails; crash: the server does.          *)
ASSUME FaultsAssumption == Faults \subseteq {"early", "expire", "storage", "crash"}

(* header: the places of %PDF-; metadata: the first digit from 1 to 9 after  *)
(* a "Pages:" of the title, subject or author, 0 if there is none; warns:    *)
(* pdfinfo writes to stderr; code: its exit code.                            *)
FileType ==
  [mime : {"image", "pdf", "other"}, decodes : BOOLEAN, header : SUBSET Nat,
   trailer : BOOLEAN, size : Nat, pages : Nat, metadata : 0..9, warns : BOOLEAN,
   code : 0..1]
ASSUME FilesAssumption == Files \subseteq FileType

Limits == [image : Nat \union {NoLimit}, pdf : Nat \union {NoLimit}]
ASSUME LimitsAssumption == Packages \subseteq Limits /\ DefaultMax \in Limits

VARIABLES
  file,      \* the file of each upload
  live,      \* packages with credit left that have not expired
  stage,     \* where each request is
  heard,     \* of each pdfinfo: events the server has handled
  pageCount  \* column of the saved row, 0 before

vars == <<file, live, stage, heard, pageCount>>

Ended == {"saved", "refused", "lost"}
Busy == {"formatted", "allowed", "counting", "counted", "removing"}

Init ==
  /\ file \in [Uploads -> Files]
  /\ live = Packages
  /\ stage = [u \in Uploads |-> "new"]
  /\ heard = [u \in Uploads |-> {}]
  /\ pageCount = [u \in Uploads |-> 0]

Step(u, to) == stage' = [stage EXCEPT ![u] = to]

-----------------------------------------------------------------------------
(* The pipes *)

IsImageValid(f) == f.decodes

(* lastIndexOf('%PDF-') = 0: the header is there and nowhere else.           *)
IsPdfValid(f) == f.header = {0} /\ f.trailer

IsValid(f) ==
  \/ f.mime = "image" /\ IsImageValid(f)
  \/ f.mime = "pdf" /\ IsPdfValid(f)

Validate(u) ==
  /\ stage[u] = "new"
  /\ Step(u, IF IsValid(file[u]) THEN "formatted" ELSE "refused")
  /\ UNCHANGED <<file, live, heard, pageCount>>

(* As if the default were the limit a package leaves out. *)
AlsoDefaultMutant(max) == max \in live \union {DefaultMax}

(* getRawOne takes the first of the groups, one for each package.            *)
FindMaxUploadSize(max) == IF live = {} THEN max = DefaultMax ELSE max \in live

(* In limit < size, null is 0. *)
Allows(limit, size) == IF limit = NoLimit THEN size = 0 ELSE size <= limit

Fits(f, max) ==
  /\ f.mime = "image" => Allows(max.image, f.size)
  /\ f.mime = "pdf" => Allows(max.pdf, f.size)

CheckSize(u) ==
  /\ stage[u] = "formatted"
  /\ \E max \in live \union {DefaultMax} :
       /\ FindMaxUploadSize(max)
       /\ Step(u, IF Fits(file[u], max) THEN "allowed" ELSE "refused")
  /\ UNCHANGED <<file, live, heard, pageCount>>

PackageExpires ==
  /\ "expire" \in Faults
  /\ \E p \in live : live' = live \ {p}
  /\ UNCHANGED <<file, stage, heard, pageCount>>

-----------------------------------------------------------------------------
(* getPdfInfo *)

(* savePdfInTemp and spawn. *)
SpawnPdfInfo(u) ==
  /\ stage[u] = "allowed" /\ file[u].mime = "pdf"
  /\ Step(u, "counting")
  /\ UNCHANGED <<file, live, heard, pageCount>>

Event(u, kind) ==
  /\ stage[u] = "counting" /\ kind \notin heard[u]
  /\ heard' = [heard EXCEPT ![u] = @ \union {kind}]
  /\ UNCHANGED <<file, live, stage, pageCount>>

(* pdfinfo prints nothing if it fails. *)
Stdout(u) == file[u].code = 0 /\ Event(u, "stdout")
Stderr(u) == file[u].warns /\ Event(u, "stderr")

(* The first digit from 1 to 9 of a number is its leading one. *)
FirstDigit[n \in Nat] == IF n < 10 THEN n ELSE FirstDigit[n \div 10]

(* As if the digit were looked for in the whole output, dates included.      *)
AnyDigitMutant(f) == 9

(* match takes the first line that fits, and pdfinfo prints the metadata     *)
(* before the line of the pages.                                             *)
PagesMatched(f) == IF f.metadata # 0 THEN f.metadata ELSE FirstDigit[f.pages]

(* The process is gone; docker restarts it.                                  *)
Die ==
  /\ stage' = [u \in Uploads |-> IF stage[u] \in Busy THEN "lost" ELSE stage[u]]
  /\ UNCHANGED <<file, live, heard, pageCount>>

(* As if only a pdfinfo that succeeded were answered. *)
NoRejectMutant(u) ==
  /\ stage[u] = "counting"
  /\ file[u].code = 0 /\ "stdout" \in heard[u] /\ "stderr" \notin heard[u]
  /\ Step(u, "removing")
  /\ UNCHANGED <<file, live, heard, pageCount>>

(* The 'exit' event, which may come before the output has been read.  match  *)
(* finds no pages in an empty output, and none in "Pages: 0": null[0] throws *)
(* in an async callback that nobody awaits.                                  *)
Exit(u) ==
  /\ stage[u] = "counting"
  /\ \/ "early" \in Faults
     \/ /\ file[u].code = 0 => "stdout" \in heard[u]
        /\ file[u].warns => "stderr" \in heard[u]
  /\ \/ /\ "stderr" \in heard[u] \/ file[u].code # 0
        /\ Step(u, "refused")
        /\ UNCHANGED <<file, live, heard, pageCount>>
     \/ /\ "stderr" \notin heard[u] /\ file[u].code = 0
        /\ "stdout" \notin heard[u] \/ PagesMatched(file[u]) = 0
        /\ Die
     \/ /\ "stderr" \notin heard[u] /\ file[u].code = 0
        /\ "stdout" \in heard[u] /\ PagesMatched(file[u]) # 0
        /\ Step(u, "removing")
        /\ UNCHANGED <<file, live, heard, pageCount>>

(* The unlink is awaited, by a callback that nobody awaits; the temporary    *)
(* file itself is left out.                                                  *)
RemoveTemp(u) ==
  /\ stage[u] = "removing"
  /\ \/ /\ Step(u, "counted")
        /\ UNCHANGED <<file, live, heard, pageCount>>
     \/ "storage" \in Faults /\ Die

(* An image is one page. *)
SaveDocument(u) ==
  LET f == file[u] IN
  /\ \/ stage[u] = "allowed" /\ f.mime = "image"
     \/ stage[u] = "counted"
  /\ pageCount' = [pageCount EXCEPT ![u] = IF f.mime = "pdf" THEN PagesMatched(f) ELSE 1]
  /\ Step(u, "saved")
  /\ UNCHANGED <<file, live, heard>>

(* The query of the limit, the temporary file or the INSERT fails: 500.      *)
UploadFails(u) ==
  /\ "storage" \in Faults
  /\ stage[u] \in {"formatted", "allowed", "counted"}
  /\ Step(u, "refused")
  /\ UNCHANGED <<file, live, heard, pageCount>>

Crash == "crash" \in Faults /\ Die

-----------------------------------------------------------------------------

Serve(u) ==
  \/ Validate(u) \/ CheckSize(u) \/ SpawnPdfInfo(u) \/ Stdout(u) \/ Stderr(u)
  \/ Exit(u) \/ RemoveTemp(u) \/ SaveDocument(u) \/ UploadFails(u)

Next == (\E u \in Uploads : Serve(u)) \/ PackageExpires \/ Crash

Spec == Init /\ [][Next]_vars

(* Node runs the handlers and pdfinfo ends. *)
FairSpec == Spec /\ \A u \in Uploads : WF_vars(Serve(u))

(* Whatever the order of pdfinfo's events, whoever's process died meanwhile: *)
(* a saved document costs at least one page, and no more than its file has   *)
(* unless its own metadata says "Pages:", which is read first (pdf.ts:43).   *)
PagesWithinFile ==
  \A u \in Uploads : stage[u] = "saved" =>
    /\ pageCount[u] >= 1
    /\ file[u].mime = "pdf" /\ file[u].metadata = 0 => pageCount[u] <= file[u].pages

(* A saved document is a file that could be read, and not larger than one of *)
(* the user's packages allows; the default counts only once they are all     *)
(* gone, although they expire between the steps (document-size.pipe.ts:27).  *)
SavedWasAllowed ==
  \A u \in Uploads : stage[u] = "saved" =>
    /\ \/ \E max \in Packages : Fits(file[u], max)
       \/ live = {} /\ Fits(file[u], DefaultMax)
    /\ file[u].mime = "pdf" => file[u].code = 0 /\ file[u].trailer
    /\ file[u].mime = "image" => file[u].decodes

(* Every upload is answered, whatever becomes of the others, unless the      *)
(* server dies while it is worked on.                                        *)
UploadsEnd == \A u \in Uploads : <>(stage[u] \in Ended)
=============================================================================
