----------------------------- MODULE UrlIngestion -----------------------------
(***************************************************************************)
(* How bytes and a file name get into the service: upload_document, and    *)
(* ingest_from_url with create_document_from_url and fetch_url of          *)
(* app/services/ingestion/fetcher.py, up to the document the pipeline then *)
(* extracts.  A name is a stem, which may be empty, and what follows its   *)
(* last dot, if there is one.                                              *)
(***************************************************************************)
EXTENDS Extractors

CONSTANTS
    MaxUpload,      \* settings.max_upload_bytes
    NoExtension     \* of a name without a dot

ASSUME UrlConstants == MaxUpload \in Nat

VARIABLES
    ingest,     \* "none", "url", "fetch", "upload", or how it ended
    url,        \* the URL of the request and its optional filename
    document    \* the name, the content type and the size of the document

urlVars == <<ingest, url, document>>
-----------------------------------------------------------------------------
_ALLOWED_SCHEMES == {"http", "https"}

_CONTENT_TYPE_EXT == [html |-> "html", xhtml |-> "html", plain |-> "txt", markdown |-> "md",
                      csv |-> "csv", pdf |-> "pdf", docx |-> "docx"]

\* Mutant: a type that has no extractor of its own name.
ContentTypeUnmapped(type) == type

\* The type, without its parameters and in lower case; "" if there is none.
ContentTypes == DOMAIN _CONTENT_TYPE_EXT \cup {"image", ""}

MappedExt(type) == _CONTENT_TYPE_EXT[type]

Extensions == SUPPORTED_EXTENSIONS \cup {"php", "", NoExtension}

Names == [stem : {"", "page"}, ext : Extensions]

NoName == [stem |-> "", ext |-> NoExtension]

Supported(name) == name.ext \in SUPPORTED_EXTENSIONS

\* _resolve_filename, when it raises nothing: the name asked for, the last
\* segment of the URL's path, or that with the extension of the content type.
Resolvable(u, type) ==
    IF u.override # NoName THEN Supported(u.override)
    ELSE Supported(u.base) \/ type \in DOMAIN _CONTENT_TYPE_EXT

_resolve_filename(u, type) ==
    IF u.override # NoName THEN u.override
    ELSE IF Supported(u.base) THEN u.base
    ELSE [stem |-> IF u.base = NoName THEN "netloc" ELSE u.base.stem, ext |-> MappedExt(type)]

Urls == [scheme : _ALLOWED_SCHEMES \cup {"ftp"}, base : Names, override : Names]

NoUrl == [scheme |-> "http", base |-> NoName, override |-> NoName]
NoFile == [name |-> NoName, type |-> "", size |-> 0]

UrlInit == ingest = "none" /\ url = NoUrl /\ document = NoFile
-----------------------------------------------------------------------------
\* _require_membership comes before any network call, and so does the scheme.
IngestFromUrl(u, member) ==
    /\ ingest = "none"
    /\ url' = u
    /\ ingest' = IF ~member THEN "not found"
                 ELSE IF u.scheme \notin _ALLOWED_SCHEMES THEN "rejected" ELSE "fetch"
    /\ UNCHANGED document

\* httpx follows redirects; what it raises for them, for the status or for the
\* connection is an HTTPError.
FetchFails ==
    /\ ingest = "fetch"
    /\ ingest' = "rejected"
    /\ UNCHANGED <<url, document>>

FetchUrl(type, size) ==
    /\ ingest = "fetch"
    /\ IF size \in 1 .. MaxUpload /\ Resolvable(url, type)
       THEN /\ ingest' = "created"
            /\ document' = [name |-> _resolve_filename(url, type), type |-> type, size |-> size]
       ELSE ingest' = "rejected" /\ UNCHANGED document
    /\ UNCHANGED url

\* Any name will do, and a part without one is named "upload".
UploadDocument(name, size, member) ==
    /\ ingest = "none"
    /\ IF size \in 1 .. MaxUpload /\ member
       THEN /\ ingest' = "uploaded"
            /\ document' = [name |-> IF name = NoName THEN [NoName EXCEPT !.stem = "upload"]
                                     ELSE name,
                            type |-> "", size |-> size]
       ELSE /\ ingest' = IF size \in 1 .. MaxUpload THEN "not found" ELSE "rejected"
            /\ UNCHANGED document
    /\ UNCHANGED url

\* The pipeline calls extract.  When there is no extractor, its library is not
\* installed or the bytes are not what it can read, the document is FAILED.
Extract ==
    /\ ingest \in {"created", "uploaded"}
    /\ \/ Supported(document.name) /\ ingest' = "extracted"
       \/ ingest' = "failed"
    /\ UNCHANGED <<url, document>>

UrlNext ==
    \/ \E u \in Urls, member \in BOOLEAN : IngestFromUrl(u, member)
    \/ FetchFails
    \/ \E type \in ContentTypes, size \in 0 .. MaxUpload + 1 : FetchUrl(type, size)
    \/ \E name \in Names, size \in 0 .. MaxUpload + 1, member \in BOOLEAN :
         UploadDocument(name, size, member)
    \/ Extract

UrlSpec == UrlInit /\ [][UrlNext]_urlVars
-----------------------------------------------------------------------------
(* Properties *)

\* What is fetched can be extracted: whatever the URL ends in, whatever name is
\* asked for and whatever the server says of the content, a document is created
\* only with a name that has an extractor, so that none fails for its type; and
\* when the name is made up it is the content type's extractor.
FetchedIsExtractable ==
    ingest = "created" =>
        /\ Supported(document.name)
        /\ url.override = NoName /\ ~Supported(url.base) =>
             document.type \in {"html", "xhtml"} <=> Extractor[document.name.ext] = "html"
=============================================================================
