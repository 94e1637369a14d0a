----------------------------- MODULE Extraction -----------------------------
(***************************************************************************)
(* The extraction of one asset (contexide-extractor) out of a blob store   *)
(* (contexide-blob-storage-s3) or off the web, while others put and delete *)
(* blobs and the page changes. The router may have an asset fetched twice: *)
(* the PDF extractor looks first, and what it leaves goes to the file or   *)
(* the HTTP extractor, which fetches again. Bytes are one of a few         *)
(* formats; metadata and presigned URLs are left out. A read of S3 and a   *)
(* request may fail at any time; the store in memory never fails, and its  *)
(* behaviours are among these.                                             *)
(***************************************************************************)
EXTENDS Integers

CONSTANTS
  Names,      \* names of blobs besides those put_reader makes up
  Uploads,    \* names put_reader makes up, for assets that are uploaded
  Urls,       \* storage keys that are URLs
  PdfNames,   \* the names and URLs that end in .pdf
  Assets,     \* the assets to consider, [key, content_type]
  MaxChanges, \* bound on the calls of others
  Absent

VARIABLES
  blobs,    \* the stored blobs by key, Absent where there is none
  held,     \* history: what was last put, by any spelling of the key, by name
  page,     \* the answer of the web server, Absent while it has none
  asset,    \* the asset
  step,     \* "upload", "route", the extractor about to fetch, or "done"
  outcome,  \* the result, and the block if there is one
  seen,     \* history: what the source of the asset held since the routing
  changes   \* calls of others so far

vars == <<blobs, held, page, asset, step, outcome, seen, changes>>

\* Bytes: a PDF with text, a scanned one, one the parser fails on, and others.
\* Text of white space only is blank; what sniffing does not know is plain.
Formats == {"pdf", "scan", "broken", "html", "plain", "blank", "image", "empty"}

\* Content types, and what detection makes of them. With a parameter a type is
\* another string. An empty header counts as none.
Types == {Absent, "pdf", "pdf;v", "text/html", "text/html;v", "image", "octet-stream"}

Keys == [slash : BOOLEAN, name : Names \cup Uploads]

-----------------------------------------------------------------------------
(* The blob store and the web server, as others use them.                  *)

\* Leading slashes are dropped.
NormalizeKey(key) == [key EXCEPT !.slash = FALSE]

Unnamed == asset.key = Absent
IsUrl == ~Unnamed /\ asset.key.name \in Urls

\* Bytes and the type that goes with them: the asset's for a blob, the response's for a page.
Labelled(format) ==
  IF format = Absent THEN Absent ELSE [format |-> format, type |-> asset.content_type]

\* Others change the content under a name, which the extraction may notice.
Change(name, content) ==
  /\ step \notin {"upload", "done"}
  /\ changes < MaxChanges
  /\ changes' = changes + 1
  /\ seen' = IF ~Unnamed /\ asset.key.name = name THEN seen \cup {content} ELSE seen
  /\ UNCHANGED <<asset, step, outcome>>

PutBytes(key, format) ==
  /\ blobs' = [blobs EXCEPT ![NormalizeKey(key)] = format]
  /\ held' = [held EXCEPT ![key.name] = format]
  /\ Change(key.name, Labelled(format))
  /\ UNCHANGED page

\* The asset is uploaded: the store makes up a new key, stores the bytes under it
\* as it is, and returns it for the asset.
PutReader(format) ==
  /\ step = "upload"
  /\ blobs' = [blobs EXCEPT ![asset.key] = format]
  /\ held' = [held EXCEPT ![asset.key.name] = format]
  /\ step' = "route"
  /\ UNCHANGED <<page, asset, outcome, seen, changes>>

Delete(key) ==
  /\ blobs' = [blobs EXCEPT ![NormalizeKey(key)] = Absent]
  /\ held' = [held EXCEPT ![key.name] = Absent]
  /\ Change(key.name, Absent)
  /\ UNCHANGED page

\* The page changes, or the server answers with an error status.
PageChanges(url, content) ==
  /\ page' = content
  /\ Change(url, content)
  /\ UNCHANGED <<blobs, held>>

-----------------------------------------------------------------------------
(* MIME types and blocks.                                                  *)

\* The magic number of a PDF is there when the rest does not parse.
Sniff(format) ==
  CASE format \in {"pdf", "scan", "broken"} -> "pdf"
    [] format = "html"  -> "text/html"
    [] format = "image" -> "image"
    [] OTHER            -> "octet-stream"

\* The hint counts first, whatever the bytes are.
DetectMime(content) == IF content.type = Absent THEN Sniff(content.format) ELSE content.type

IsPdf(mime) == mime = "pdf"

IsText(mime) == mime \in {"text/html", "text/html;v"}

\* Any bytes are decoded when the type says text. Markup is turned into text for
\* the bare type only.
ToText(mime, format) ==
  CASE ~IsText(mime) \/ format \in {"blank", "empty"} -> Absent
    [] mime = "text/html"                             -> "converted"
    [] OTHER                                          -> "as it is"

ModalityForMime(mime) ==
  IF IsText(mime) THEN "text" ELSE IF mime = "image" THEN "image" ELSE "binary"

BlockOf(content) ==
  LET mime == DetectMime(content) text == ToText(mime, content.format) IN
  [modality |-> IF text # Absent THEN "text" ELSE ModalityForMime(mime),
   text     |-> text,
   of       |-> content.format]

PdfBlock(format) ==
  [modality |-> IF format = "pdf" THEN "text" ELSE "binary",
   text     |-> IF format = "pdf" THEN "converted" ELSE Absent,
   of       |-> format]

-----------------------------------------------------------------------------
(* The extractors.                                                         *)

\* Content type or name speak of a PDF.
IsLikelyPdf ==
  \/ asset.content_type \in {"pdf", "pdf;v"}
  \/ ~Unnamed /\ asset.key.name \in PdfNames

Source ==
  IF IsUrl THEN page ELSE IF Unnamed THEN Absent ELSE Labelled(blobs[NormalizeKey(asset.key)])

\* What the source really holds, whatever way a fetch takes to it.
Held == IF IsUrl THEN page ELSE IF Unnamed THEN Absent ELSE Labelled(held[asset.key.name])

\* A fetch brings the content of the source, or fails.
Fetches(content) ==
  /\ content \in {Source, Absent}
  /\ seen' = IF content = Absent /\ Source # Absent THEN seen \cup {Absent} ELSE seen
  /\ UNCHANGED <<blobs, held, page, asset, changes>>

End(result, block) ==
  /\ step' = "done"
  /\ outcome' = [result |-> result, block |-> block]

NoPdfRoute == IF IsUrl THEN "http" ELSE "file"

Choose ==
  /\ step = "route"
  /\ step' = IF IsLikelyPdf THEN "pdf" ELSE NoPdfRoute
  /\ seen' = {Held}
  /\ UNCHANGED <<blobs, held, page, asset, outcome, changes>>

\* Mutation of LeftByPdf: the bytes are taken for a PDF because of the name.
LeftByPdfIfEmpty(content) == content.format = "empty"

\* What the PDF extractor returns no block for.
LeftByPdf(content) == content.format = "empty" \/ ~IsPdf(DetectMime(content))

\* Bytes the parser fails on are an error, and nothing falls back.
PdfExtract(content) ==
  /\ step = "pdf"
  /\ Fetches(content)
  /\ \/ content = Absent /\ End("error", Absent)
     \/ /\ content # Absent /\ LeftByPdf(content)
        /\ step' = NoPdfRoute /\ UNCHANGED outcome
     \/ /\ content # Absent /\ ~LeftByPdf(content)
        /\ IF content.format \in {"pdf", "scan"}
             THEN End("ok", PdfBlock(content.format))
             ELSE End("error", Absent)

FileExtract(content) ==
  /\ step = "file"
  /\ Fetches(content)
  /\ IF content = Absent THEN End("error", Absent)
     ELSE End("ok", IF content.format = "empty" THEN Absent ELSE BlockOf(content))

\* An empty page makes a block as well.
HttpExtract(content) ==
  /\ step = "http"
  /\ Fetches(content)
  /\ IF content = Absent THEN End("error", Absent) ELSE End("ok", BlockOf(content))

Contents == [format : Formats, type : Types]

Init ==
  /\ asset \in Assets
  /\ step = IF ~Unnamed /\ asset.key.name \in Uploads THEN "upload" ELSE "route"
  /\ \E format \in Formats \cup {Absent} :
       /\ held = [n \in Names \cup Uploads |->
                    IF step = "route" /\ ~Unnamed /\ n = asset.key.name THEN format ELSE Absent]
       /\ blobs = [k \in Keys |-> IF k = NormalizeKey(k) THEN held[k.name] ELSE Absent]
  /\ page \in (IF IsUrl THEN Contents \cup {Absent} ELSE {Absent})
  /\ outcome = [result |-> "none", block |-> Absent]
  /\ seen = {}
  /\ changes = 0

Next ==
  \/ Choose
  \/ \E content \in {Source, Absent} : PdfExtract(content) \/ FileExtract(content) \/ HttpExtract(content)
  \/ \E key \in Keys : Delete(key) \/ \E format \in Formats : PutBytes(key, format)
  \/ \E format \in Formats : PutReader(format)
  \/ \E content \in Contents \cup {Absent} : IsUrl /\ PageChanges(asset.key.name, content)

Spec == Init /\ [][Next]_vars

-----------------------------------------------------------------------------
(* Properties.                                                             *)

\* The type or, where there is none, the magic number says PDF.
SaysPdf(content) == content # Absent /\ IsPdf(DetectMime(content))

\* Bytes that are said to be a PDF and do not parse: no fallback takes them.
BrokenPdf(content) == SaysPdf(content) /\ content.format \notin {"pdf", "scan", "empty"}

\* Whatever changes meanwhile, the result of an extraction is explained by what
\* the source held at some moment of it: an error by a failed or missing read, as
\* long as no broken PDF was seen, no block by empty bytes, and a block by the bytes
\* it carries. A source that was a PDF with text throughout, labelled as one or not
\* at all, comes out as text when no read fails (AssetRouter::extract,
\* PdfExtractor::extract, normalize_key).
OutcomeExplained ==
  step = "done" =>
    /\ (outcome.result = "error" /\ \A s \in seen : ~BrokenPdf(s)) => Absent \in seen
    /\ (outcome.result = "ok" /\ outcome.block = Absent) => \E s \in seen : s # Absent /\ s.format = "empty"
    /\ (outcome.result = "ok" /\ outcome.block # Absent) => \E s \in seen : s # Absent /\ s.format = outcome.block.of
    /\ (IsLikelyPdf /\ \A s \in seen : SaysPdf(s) /\ s.format = "pdf") =>
         outcome.block = PdfBlock("pdf")

\* A PDF whose text cannot be extracted falls back, so that only a failed or missing
\* read is an error. It is not so: bytes the parser fails on are one as well.
FailedPdfFallsBack == step = "done" /\ outcome.result = "error" => Absent \in seen
=============================================================================
