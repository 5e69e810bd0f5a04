-------------------------------- MODULE Routing --------------------------------
(***************************************************************************)
(* From a URI to a location and a path: Server::addLocation(), _check_uri() *)
(* and _check_method(), as operators.  URIs and paths are sequences of     *)
(* "/", "?" and names; "" is the character sequence of no name.            *)
(*                                                                         *)
(* Settings are those of a location or of the server itself: records       *)
(* [name, root, redirect, methods, index, autoindex, pages], where         *)
(* redirect is empty if there is none, and the server's name is empty.     *)
(***************************************************************************)
EXTENDS Integers, Sequences, SequencesExt, FiniteSetsExt

CONSTANT FileNames   \* the names that have a dot

(* is_path_to_file(): there is a dot anywhere.                             *)
IsPathToFile(path) == \E k \in DOMAIN path : path[k] \in FileNames

(* Faulty: the first entry of the same name is looked for and replaced.    *)
AddLocationOnce(locations, new) ==
  IF \E k \in DOMAIN locations : locations[k].name = new.name
    THEN [locations EXCEPT ![1] = new] ELSE Append(locations, new)

(* The loop replaces every entry of the same name, and appends the new one *)
(* for each entry of another name, as the vector grows under it.           *)
AddLocation(locations, new) ==
  IF locations = <<>> THEN <<new>> ELSE
    LET Same(l) == l.name = new.name
    IN [k \in DOMAIN locations |-> IF Same(locations[k]) THEN new ELSE locations[k]]
         \o [k \in 1..Cardinality({j \in DOMAIN locations : ~Same(locations[j])}) |-> new]

Locations(written) == FoldLeft(AddLocation, <<>>, written)

FirstNamed(locations, name) == SelectInSeq(locations, LAMBDA l : l.name = name)

PathPart(uri) ==
  LET query == SelectInSeq(uri, LAMBDA c : c = "?")
  IN IF query = 0 THEN uri ELSE SubSeq(uri, 1, query - 1)

(* The path is looked up at each slash of the URI, before the slash is     *)
(* appended to it (but for the first), and at the last character, after it *)
(* is, which a query hides.                                                *)
Stops(uri) ==
  {k \in DOMAIN PathPart(uri) : uri[k] = "/" \/ k = Len(uri)}
PathAt(uri, k) == SubSeq(uri, 1, IF k > 1 /\ uri[k] = "/" THEN k - 1 ELSE k)

Found(locations, uri) ==
  {k \in Stops(uri) : FirstNamed(locations, PathAt(uri, k)) > 0}

(* Faulty: a location, once found, is kept.                                *)
WalkShortest(locations, uri) ==
  LET found == Found(locations, uri)
  IN IF found = {} THEN 0 ELSE FirstNamed(locations, PathAt(uri, Min(found)))

(* The loop over the URI: the last location found stays.                   *)
Walk(locations, uri) ==
  LET found == Found(locations, uri)
  IN IF found = {} THEN 0 ELSE FirstNamed(locations, PathAt(uri, Max(found)))

OneSlash(path) ==
  IF Len(path) > 1 /\ path[1] = "/" /\ path[2] = "/" THEN Tail(path) ELSE path

(* The root, or the redirection, takes the place of the location's name,   *)
(* unless that is "/"; an external redirection is taken as it is.          *)
Translated(s, path) ==
  LET rest == IF Len(s.name) > 1 THEN SubSeq(path, Len(s.name) + 1, Len(path)) ELSE path
  IN IF s.redirect # <<>> /\ s.redirect[1] # "/" THEN s.redirect
     ELSE OneSlash((IF s.redirect # <<>> THEN s.redirect ELSE s.root) \o rest)

Unslashed(path) == IF path # <<>> /\ Last(path) = "/" THEN Front(path) ELSE path
Slashed(path) == Unslashed(path) \o <<"/">>

(* at: the entry of the location, or 0 for the server itself.              *)
Routed(code, path, at) == [code |-> code, path |-> path, at |-> at]

SettingsAt(server, locations, at) == IF at > 0 THEN locations[at] ELSE server

(* Where a URI leads, whatever is there.                                   *)
Destination(server, locations, uri) ==
  LET at == Walk(locations, uri)
  IN [path |-> Translated(SettingsAt(server, locations, at), PathPart(uri)), at |-> at]

(* Where a request goes: a redirection before anything else, then a file   *)
(* that exists or a directory that does, which stands for its index or is  *)
(* listed.                                                                 *)
CheckUri(s, destination, exists, uri) ==
  LET path == destination.path
      target == CASE IsPathToFile(path) -> path
                  [] ~IsPathToFile(path) /\ s.autoindex -> Slashed(path)
                  [] ~IsPathToFile(path) /\ ~s.autoindex -> s.index
      code == CASE s.redirect # <<>> -> 301
                [] s.redirect = <<>> /\ exists -> 200
                [] s.redirect = <<>> /\ ~exists -> 404
  IN IF uri[1] # "/" THEN Routed(500, <<>>, 0)
     ELSE Routed(code, IF code = 200 THEN target ELSE path, destination.at)

(* A method that the settings do not allow; an error found before stays.   *)
CheckMethod(s, routed, method) ==
  IF routed.code < 400 /\ method \notin s.methods
    THEN [routed EXCEPT !.code = 405] ELSE routed

(* handleErrorPages(): a location's pages hide the server's; without a     *)
(* page of its own a code has a default one.                               *)
ErrorPage(s, files, code) ==
  LET default(c) == <<"content", "/", "error_pages", "/", ToString(c) \o ".html">>
  IN IF code \in DOMAIN s.pages THEN s.pages[code]
     ELSE IF default(code) \in files THEN default(code) ELSE default(500)
=============================================================================
