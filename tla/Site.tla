---------------------------------- MODULE Site ----------------------------------
(***************************************************************************)
(* What the server does to its files: requests are checked and routed      *)
(* (check_request()), the bodies of POST requests are parsed, and          *)
(* responseBuilder() answers, reading, writing and removing files.         *)
(* A request without a body is checked and answered in one pass of the     *)
(* event loop; between the head and the body of a POST request others are  *)
(* answered.  CGI requests are the business of module CGI.                 *)
(*                                                                         *)
(* Before that, the program makes its servers of its configuration file    *)
(* (module Config); the requests are those of one of them.                 *)
(***************************************************************************)
EXTENDS Config, Bodies

CONSTANTS
  Requests,      \* the requests of a behaviour
  Inputs,        \* what they may be, for each configuration file
  InitialFiles,  \* the files at the start, as a function to their content
  LikeContent,   \* the names that end in "content", ...
  LikeUpload,    \* ... and those that begin with "upload"
  NoInput

(* Requests are records [method, uri, media, body, data, fields]: data and *)
(* fields, a sequence of pairs, are what the client means by the body.     *)
AllInputs == UNION {Inputs[n] : n \in DOMAIN Files}

UploadDir == <<"content", "/", "upload">>

ASSUME SiteAssumption ==
  /\ DOMAIN Inputs = DOMAIN Files /\ NoInput \notin AllInputs
  /\ DOMAIN InitialFiles = Published
  /\ UploadDir \in Directories
  /\ "content" \in LikeContent /\ "upload" \in LikeUpload
  /\ {"/", ".", ".."} \cap (LikeContent \cup LikeUpload) = {} /\ {".", ".."} \subseteq FileNames

VARIABLES
  site,     \* the server that is asked, once a client opened it
  files,    \* the files and their content
  dirs,     \* the directories
  asked,    \* what each request is
  routed,   \* where it goes, once it was checked
  phase,    \* "none", "body" (the body is awaited), "done"
  log,      \* the answers, oldest first
  proc      \* "running", "recovering" (an exception left run()), "crashed"

NoSite == [from |-> 0]
requests == <<files, dirs, asked, routed, phase, log, proc>>
vars == <<startup, site, requests>>

Init ==
  /\ ConfigInit /\ site = NoSite
  /\ files = InitialFiles /\ dirs = Directories
  /\ asked = [r \in Requests |-> NoInput]
  /\ routed = [r \in Requests |-> Routed(0, <<>>, 0)]
  /\ phase = [r \in Requests |-> "none"]
  /\ log = <<>> /\ proc = "running"

----------------------------------------------------------------------------
(* The file system                                                         *)

DirOf(path) == Front(Front(path))
Content(path) == IF path \in DOMAIN files THEN files[path] ELSE <<>>

(* The way to the file or directory that a path names, one token further:  *)
(* a slash after a directory, a name in it, "." for it and ".." for the    *)
(* directory it is in.  What is outside of the site is not modelled.       *)
Nowhere == <<"">>
Enter(here, token) ==
  CASE here = Nowhere -> Nowhere
    [] here # Nowhere /\ token = "/" -> IF Unslashed(here) \in dirs THEN Slashed(here) ELSE Nowhere
    [] here # Nowhere /\ token = "." -> Unslashed(here)
    [] here # Nowhere /\ token = ".." -> DirOf(Unslashed(here))
    [] here # Nowhere /\ token \notin {"/", ".", ".."} -> Append(here, token)

Place(path) == FoldLeft(Enter, <<>>, path)

IsDirectory(path) == Place(path) # Nowhere /\ Unslashed(Place(path)) \in dirs
IsFile(path) == Place(path) # Nowhere /\ Place(path) \in DOMAIN files

(* A stream opens a directory, too; opendir() opens nothing else.          *)
Exists(path) == IsDirectory(path) \/ (IsPathToFile(path) /\ IsFile(path))

(* An ofstream fails where there is no directory, silently.                *)
Written(path, content) ==
  IF DirOf(path) \notin dirs THEN files
  ELSE [p \in DOMAIN files \cup {path} |-> IF p = path THEN content ELSE files[p]]

Within(dir) == {p \in DOMAIN files \cup dirs : IsStrictPrefix(Slashed(dir), p)}

(* remove(3): files, and directories without anything in them, unless they *)
(* are named by ".".                                                       *)
EndsInDot(path) == \E k \in DOMAIN path : path[k] = "." /\ \A j \in k + 1..Len(path) : path[j] = "/"
Removable(path) ==
  \/ IsFile(path)
  \/ IsDirectory(path) /\ Within(Unslashed(Place(path))) = {} /\ ~EndsInDot(path)

----------------------------------------------------------------------------
(* Answers                                                                 *)

SettingsOf(to) == SettingsAt(site.settings, site.locations, to.at)

Answer(r, code, path, body, fields) ==
  [by |-> r, code |-> code, path |-> path, body |-> body, fields |-> fields]

Respond(r, code, path, body) ==
  /\ log' = Append(log, Answer(r, code, path, body, {}))
  /\ phase' = [phase EXCEPT ![r] = "done"]

Refuse(r, to, code) ==
  LET page == ErrorPage(SettingsOf(to), DOMAIN files, code)
  IN Respond(r, code, page, Content(page)) /\ UNCHANGED <<files, dirs, proc>>

----------------------------------------------------------------------------
(* check_request()                                                         *)

CheckRequest(i, there) ==
  LET s == SettingsOf(there)
  IN CheckMethod(s, CheckUri(s, there, Exists(there.path), i.uri), i.method)

(* Requests that may come, each with where it goes.                        *)
Checked(methods) ==
  {[input |-> e.input, to |-> CheckRequest(e.input, e.there)] :
     e \in {[input |-> i, there |-> Destination(site.settings, site.locations, i.uri)] :
              i \in {j \in Inputs[file] : j.method \in methods}}}

(* A request comes that nobody has seen: what it is, and where it goes.    *)
Arrives(r) == proc = "running" /\ site # NoSite /\ phase[r] = "none"

Check(r, e) ==
  /\ asked' = [asked EXCEPT ![r] = e.input]
  /\ routed' = [routed EXCEPT ![r] = e.to]
  /\ UNCHANGED <<startup, site>>

CheckFails(r) ==
  /\ Arrives(r)
  /\ \E e \in Checked(AllMethods) :
       e.to.code >= 400 /\ Check(r, e) /\ Refuse(r, e.to, e.to.code)

Redirects(r) ==
  /\ Arrives(r)
  /\ \E e \in Checked({"GET", "DELETE"}) :
       e.to.code = 301 /\ Check(r, e) /\ Respond(r, 301, e.to.path, <<>>)
  /\ UNCHANGED <<files, dirs, proc>>

(* Faulty: whatever the check said.                                        *)
AwaitsAnyBody(r) ==
  /\ Arrives(r)
  /\ \E e \in Checked({"POST"}) : Check(r, e)
  /\ phase' = [phase EXCEPT ![r] = "body"]
  /\ UNCHANGED <<files, dirs, log, proc>>

AwaitsBody(r) ==
  /\ Arrives(r)
  /\ \E e \in Checked({"POST"}) : e.to.code < 400 /\ Check(r, e)
  /\ phase' = [phase EXCEPT ![r] = "body"]
  /\ UNCHANGED <<files, dirs, log, proc>>

----------------------------------------------------------------------------
(* handleGetRequest(): a directory is listed in a file, which is sent; any *)
(* JSON file is a listing of the uploads; any other file is sent.          *)

Listing == <<"listing">>
JsonPath == UploadDir \o <<"/", "listing.json">>
IsJson(path) == \E k \in DOMAIN path : path[k] = "listing.json"

GetsDirectory(r) ==
  /\ Arrives(r)
  /\ \E e \in Checked({"GET"}) :
       LET page == Append(Slashed(Place(e.to.path)), "autoindex.html")
       IN /\ e.to.code = 200 /\ Last(e.to.path) = "/" /\ Check(r, e)
          /\ files' = Written(page, Listing) /\ Respond(r, 200, page, Listing)
  /\ UNCHANGED <<dirs, proc>>

GetsJson(r) ==
  /\ Arrives(r)
  /\ \E e \in Checked({"GET"}) :
          /\ e.to.code = 200 /\ IsJson(e.to.path) /\ Check(r, e)
          /\ files' = Written(JsonPath, Listing) /\ Respond(r, 200, e.to.path, Listing)
  /\ UNCHANGED <<dirs, proc>>

GetsFile(r) ==
  /\ Arrives(r)
  /\ \E e \in Checked({"GET"}) :
          /\ e.to.code = 200 /\ Last(e.to.path) # "/" /\ ~IsJson(e.to.path) /\ Check(r, e)
          /\ Respond(r, 200, e.to.path, Content(Place(e.to.path)))
  /\ UNCHANGED <<files, dirs, proc>>

----------------------------------------------------------------------------
(* handleDeleteRequest(): only paths that mention "content/upload" are     *)
(* removed, as they are written.  The answers keep what was removed.       *)

Mentions(path) ==
  \E k \in 1..Len(path) - 2 : path[k] \in LikeContent /\ path[k + 1] = "/" /\ path[k + 2] \in LikeUpload

RemovalAllowedAnywhere(path) == path # <<>>   \* faulty
RemovalAllowed(path) == Mentions(path)

Deletes(r) ==
  /\ Arrives(r)
  /\ \E e \in Checked({"DELETE"}) :
       LET allowed == RemovalAllowed(e.to.path)
           removed == allowed /\ Removable(e.to.path)
           code == CASE ~allowed -> 403 [] allowed /\ ~removed -> 500 [] removed -> 204
           place == Place(e.to.path)
       IN /\ e.to.code = 200 /\ Check(r, e)
          /\ files' = IF removed THEN [p \in DOMAIN files \ {place} |-> files[p]] ELSE files
          /\ dirs' = IF removed THEN dirs \ {Unslashed(place)} ELSE dirs
          /\ Respond(r, code, place, <<>>)
  /\ UNCHANGED proc

----------------------------------------------------------------------------
(* The body of a POST request, build() and handlePostRequest()             *)

IsMultipart(i) == i.media = "multipart"
Parsed == [i \in {j \in AllInputs : IsMultipart(j)} |-> Multipart(i.body)]
Media(i) == IF IsMultipart(i) THEN Parsed[i].media ELSE i.media

(* The data that is left of the body, if it can be told.                   *)
Data(i) == IF IsMultipart(i) THEN WithoutEnding(Parsed[i].data) ELSE i.body

BodyError(i) == IF IsMultipart(i) THEN Parsed[i].error ELSE 0
Throws(i) == Media(i) = "form" /\ Form(Data(i)).thrown

(* Undefined behaviour: a body shorter than its ending is erased from      *)
(* before its start; image() is read although it was never set.  Bodies of *)
(* the first kind whose part is a text are left out.                       *)
Erased(i) == IsMultipart(i) /\ TooShort(Parsed[i].data)
Undefined(r) ==
  LET i == asked[r]
  IN \/ Erased(i)
     \/ /\ Media(i) \in {"png", "jpg"} /\ routed[r].code = 200
        /\ ~IsMultipart(i) \/ Data(i) = <<>>

AtBody(r) ==
  /\ proc = "running" /\ phase[r] = "body"
  /\ UNCHANGED <<startup, site, asked, routed>>

BodyRefused(r) ==
  /\ AtBody(r) /\ BodyError(asked[r]) # 0
  /\ Refuse(r, routed[r], BodyError(asked[r]))

(* The body was parsed by build(), or lost without a crash.                *)
BodyTaken(r) ==
  /\ AtBody(r) /\ BodyError(asked[r]) = 0
  /\ ~Undefined(r) /\ ~Throws(asked[r])

BodyLost(r) ==
  /\ AtBody(r) /\ BodyError(asked[r]) = 0
  /\ Undefined(r) /\ Media(asked[r]) \in {"png", "jpg", "multipart"}

Crashes(r) ==
  /\ AtBody(r) /\ BodyError(asked[r]) = 0 /\ Undefined(r)
  /\ proc' = "crashed"
  /\ UNCHANGED <<files, dirs, phase, log>>

(* An exception out of build(): what follows is in module EventLoop.       *)
BuildThrows(r) ==
  /\ AtBody(r) /\ BodyError(asked[r]) = 0 /\ ~Undefined(r) /\ Throws(asked[r])
  /\ proc' = "recovering"
  /\ UNCHANGED <<files, dirs, phase, log>>

RedirectsPost(r) ==
  /\ BodyTaken(r) \/ BodyLost(r)
  /\ routed[r].code = 301
  /\ Respond(r, 301, routed[r].path, <<>>)
  /\ UNCHANGED <<files, dirs, proc>>

ImageName(k, type) ==
  UploadDir \o <<"/", "image" \o (IF k = 0 THEN "" ELSE ToString(k)) \o "." \o type>>

SetFileNameFirst(type) == ImageName(0, type)   \* faulty: the file may be there

(* setFileName(): the first name that cannot be opened.                    *)
SetFileName(type) ==
  ImageName(CHOOSE k \in 0..Cardinality(DOMAIN files) :
              /\ ImageName(k, type) \notin DOMAIN files
              /\ \A j \in 0..k - 1 : ImageName(j, type) \in DOMAIN files, type)

(* processFileUpload(): 201, whether the file was opened or not.           *)
SaveImage(r, type, data) ==
  /\ files' = Written(SetFileName(type), data)
  /\ Respond(r, 201, SetFileName(type), SetFileName(type))
  /\ UNCHANGED dirs

UploadsImage(r) ==
  /\ BodyTaken(r) /\ routed[r].code = 200 /\ Media(asked[r]) \in {"png", "jpg"}
  /\ SaveImage(r, Media(asked[r]), Data(asked[r]))
  /\ UNCHANGED proc

(* processTextUpload(): the text and a line end are appended.              *)
TextPath == UploadDir \o <<"/", "hello.txt">>
AppendedInstead(text) == text   \* faulty: without ios::app
Appended(text) == Content(TextPath) \o text

UploadsText(r) ==
  LET text == Append(Data(asked[r]), "LF")
  IN /\ BodyTaken(r) /\ routed[r].code = 200 /\ Media(asked[r]) = "text"
     /\ files' = Written(TextPath, Appended(text))
     /\ Respond(r, 200, TextPath, text)
     /\ UNCHANGED <<dirs, proc>>

(* Any other body: 201, and what is at the URI as a path, which is outside *)
(* of the site; the fields are for a script.                               *)
TakesForm(r) ==
  /\ BodyTaken(r) \/ BodyLost(r)
  /\ routed[r].code = 200 /\ Media(asked[r]) \notin {"png", "jpg", "text"}
  /\ files' = IF IsJson(asked[r].uri) THEN Written(JsonPath, Listing) ELSE files
  /\ LET fields == IF Media(asked[r]) = "form" THEN Form(Data(asked[r])).fields ELSE {}
         body == IF IsJson(asked[r].uri) THEN Listing ELSE <<>>
     IN log' = Append(log, Answer(r, 201, asked[r].uri, body, fields))
  /\ phase' = [phase EXCEPT ![r] = "done"]
  /\ UNCHANGED <<dirs, proc>>

(* What is taken for an image is saved; its type was not set, unless the   *)
(* size of an erased body made parse_body() set it.                        *)
SavesJunk(r) ==
  /\ BodyLost(r) /\ routed[r].code = 200 /\ Media(asked[r]) \in {"png", "jpg"}
  /\ \E type \in {""} \cup (IF Erased(asked[r]) THEN {Media(asked[r])} ELSE {}) :
       SaveImage(r, type, <<"junk">>)
  /\ UNCHANGED proc

----------------------------------------------------------------------------
(* What the constants stand for                                            *)

(* Published files are finitely many, and no text was uploaded yet.        *)
ASSUME PathAssumption ==
  /\ IsFiniteSet(Published) /\ TextPath \notin Published
  /\ \A p \in Published : IsSequence(p)

(* The name of a location has no query, and does not end in a slash unless *)
(* it is one.                                                              *)
IsLocationName(name) ==
  IsSequence(name) /\ name # <<>> /\ "?" \notin ToSet(name) /\ (Last(name) = "/" => Len(name) = 1)
ASSUME LocationAssumption ==
  \A n \in DOMAIN Files : \A k \in DOMAIN Built[n] :
    LET b == Built[n][k]
    IN /\ IsSequence(b.settings.index) /\ IsSequence(b.settings.root) /\ IsSequence(b.locations)
       /\ \A j \in DOMAIN b.locations :
            /\ IsSequence(b.locations[j].index) /\ IsSequence(b.locations[j].root)
            /\ IsLocationName(b.locations[j].name)

(* The data a client means is what it puts between the delimiters of a     *)
(* part that names its type, or a text it sends as it is.  It means none   *)
(* by an image that it sends without delimiters, or cut short.             *)
SentAsMeant(i) ==
  IF IsMultipart(i) THEN \E type \in DOMAIN MediaOf :
                           MediaOf[type] # "unsupported" /\ i.body = Part(<<type>>, i.data)
                    ELSE i.body = i.data
ASSUME DataAssumption ==
  \A i \in AllInputs :
    /\ IsSequence(i.data) /\ IsSequence(i.body) /\ IsSequence(i.uri) /\ i.uri # <<>>
    /\ Media(i) \in {"png", "jpg"} /\ i.data # <<>> => IsMultipart(i) /\ SentAsMeant(i)
    /\ Media(i) = "text" => SentAsMeant(i)

(* The fields of a form are pairs of texts.                                *)
ASSUME FormAssumption ==
  \A i \in AllInputs : i.media = "form" =>
    /\ IsSequence(i.fields)
    /\ \A k \in DOMAIN i.fields :
         LET name == i.fields[k][1]
             value == i.fields[k][2]
         IN i.fields[k] = <<name, value>> /\ IsSequence(name) /\ IsSequence(value)

----------------------------------------------------------------------------

Heads(r) == \/ CheckFails(r) \/ Redirects(r) \/ AwaitsBody(r)
            \/ GetsDirectory(r) \/ GetsJson(r) \/ GetsFile(r) \/ Deletes(r)

Posts(r) == \/ BodyRefused(r) \/ BuildThrows(r) \/ RedirectsPost(r)
            \/ UploadsImage(r) \/ UploadsText(r) \/ TakesForm(r)
            \/ Crashes(r) \/ SavesJunk(r)

(* A client knows one of the servers.                                      *)
Opens ==
  /\ stage = "running" /\ site = NoSite
  /\ \E k \in DOMAIN servers :
       servers[k].from \in Starts(Lines) /\ site' = Built[file][servers[k].from]
  /\ UNCHANGED <<startup, requests>>

Next == \/ Startup /\ UNCHANGED <<site, requests>>
        \/ Opens
        \/ \E r \in Requests : Heads(r) \/ Posts(r)

Spec == Init /\ [][Next]_vars

----------------------------------------------------------------------------
(* Properties                                                              *)

Codes == {200, 201, 204, 301, 403, 404, 405, 400, 415, 500}

(* Every variable has its type; the server that is asked is one of those   *)
(* that were made, and no body is awaited of a request that was refused.   *)
TypeOK ==
  /\ StartupTypeOK
  /\ site # NoSite => \E k \in DOMAIN servers : site.from = servers[k].from
  /\ \A p \in DOMAIN files : IsSequence(p)
  /\ dirs \subseteq Directories
  /\ asked \in [Requests -> AllInputs \cup {NoInput}]
  /\ \A r \in Requests : routed[r].code \in Codes \cup {0}
  /\ \A r \in Requests : phase[r] = "body" => routed[r].code < 400
  /\ phase \in [Requests -> {"none", "body", "done"}]
  /\ \A k \in DOMAIN log : log[k].by \in Requests /\ log[k].code \in Codes
  /\ proc \in {"running", "recovering", "crashed"}

(* The location of a URI without a query is the longest one of the file's  *)
(* block that covers it in whole segments, with the settings it was given  *)
(* last, and the server itself where there is none.                        *)
Covers(name, uri) ==
  /\ IsPrefix(name, uri)
  /\ name = <<"/">> \/ Len(name) = Len(uri) \/ uri[Len(name) + 1] = "/"

Declared ==
  [n \in WellFormedFiles |-> [k \in DOMAIN Built[n] |->
     [locations |-> DeclaredLocations(Files[n], k),
      server |-> DeclaredSettings(Files[n], <<>>, k)]]]
LocationFor(uri) ==
  LET written == Declared[file][site.from].locations
      covering == {k \in DOMAIN written : Covers(written[k].name, uri)}
      Beats(k, j) == \/ Len(written[k].name) > Len(written[j].name)
                     \/ Len(written[k].name) = Len(written[j].name) /\ k >= j
  IN IF covering = {} THEN Declared[file][site.from].server
     ELSE written[CHOOSE k \in covering : \A j \in covering : Beats(k, j)]

RoutedToLongest ==
  file \in WellFormedFiles => \A r \in Requests :
    phase[r] # "none" /\ asked[r].uri[1] = "/" /\ PathPart(asked[r].uri) = asked[r].uri =>
      SettingsOf(routed[r]) = LocationFor(asked[r].uri)

IsImage(k) ==
  LET i == asked[log[k].by]
  IN log[k].code = 201 /\ i.method = "POST" /\ Media(i) \in {"png", "jpg"} /\ i.data # <<>>
RemovedAfter(k, path) == \E j \in k + 1..Len(log) : log[j].code = 204 /\ log[j].path = path
UploadsGoneBefore(k) ==
  \E j \in 1..k - 1 : log[j].code = 204 /\ Unslashed(log[j].path) = UploadDir

(* An image answered with 201 is in the file the answer names, byte for    *)
(* byte what the client put between the delimiters, until a request        *)
(* removes that very file; uploads never share a file.  Not so once a      *)
(* request has removed the empty upload directory itself.                  *)
UploadsKept ==
  \A k \in DOMAIN log :
    IsImage(k) /\ ~UploadsGoneBefore(k) /\ ~RemovedAfter(k, log[k].path) =>
      /\ Content(log[k].path) = asked[log[k].by].data
      /\ \A j \in k + 1..Len(log) : IsImage(j) => log[j].path # log[k].path

(* hello.txt holds the texts answered with 200, in the order of the        *)
(* answers, since it was last removed.                                     *)
TextsAfter(texts, e, i) ==
  IF e.code = 204 /\ e.path = TextPath THEN <<>>
  ELSE IF e.code = 200 /\ i.method = "POST" THEN texts \o Append(i.data, "LF")
  ELSE texts
TextsOf(answers, inputs) ==
  LET after[k \in 0..Len(answers)] ==
        IF k = 0 THEN <<>>
                 ELSE TextsAfter(after[k - 1], answers[k], inputs[answers[k].by])
  IN after[Len(answers)]
Texts == TextsOf(log, asked)
TextsKept == UploadDir \in dirs => Content(TextPath) = Texts

(* A form is understood as the client meant it: escaped characters, equal  *)
(* signs within values, and names given twice, of which the last counts;   *)
(* but where the client sends its spaces as "+" they are taken for that.   *)
FormsUnderstood ==
  \A k \in DOMAIN log :
    LET i == asked[log[k].by]
    IN i.media = "form" /\ i.fields # <<>> /\ log[k].code = 201 =>
         \A plain \in SUBSET {"=", "SP"} :
           i.body = FormBody(i.fields, plain) =>
             log[k].fields = LastOfEach(HeardPairs(i.fields, plain))

(* What a step does to the files is accounted for by the answer it gives:  *)
(* a file that is there changes or goes only if it is a listing the server *)
(* generates, the text file, which grows, or one that a DELETE removes     *)
(* where DELETE is allowed, which has "content/upload" in its path.  That  *)
(* is not promised of a request whose path has a "..": the code looks for  *)
(* the words in the path as it is written, not where it leads.             *)
Changed(p) == p \in DOMAIN files /\ (p \in DOMAIN files' => files'[p] # files[p])
Accounted ==
  \A p \in DOMAIN files : Changed(p) =>
    LET e == Last(log')
        i == asked'[e.by]
    IN \/ Last(p) \in {"autoindex.html", "listing.json"} /\ p \in DOMAIN files'
       \/ p = TextPath /\ p \in DOMAIN files' /\ IsPrefix(files[p], files'[p])
       \/ /\ e.path = p /\ e.code = 204 /\ i.method = "DELETE"
          /\ ".." \in ToSet(routed'[e.by].path) \/ Mentions(p)
          /\ file \in WellFormedFiles => "DELETE" \in LocationFor(i.uri).methods
ChangesAccountedFor == [][Accounted]_vars

(* HandlePostRequest.cpp:52 promises 201 only for a file that was saved.   *)
CreatedMeansSaved ==
  log # <<>> /\ IsImage(Len(log)) => Content(Last(log).path) = asked[Last(log).by].data
=============================================================================
