--------------------------------- MODULE SiteMC ---------------------------------
(* The instances of Site that TLC checks.                                  *)
EXTENDS Site

CONSTANTS r1, r2, r3   \* requests, as model values

ThreeRequests == {r1, r2, r3}
Symmetry == Permutations(ThreeRequests)

Names == {"index.html", "autoindex.html", "listing.json", "hello.txt", "page.txt",
          "404.html", "500.html", "lost.html",
          "image.png", "image1.png", "image2.png", "image3.png",
          "image.jpg", "image1.jpg", "image2.jpg", "image3.jpg",
          "image.", "image1.", "image2.", "upload.html", ".", ".."}
LikeUploads == {"upload", "upload.html"}
LikeContents == {"content"}

Root == <<"content">>
Under(dir, name) == dir \o <<"/", name>>
Pages == Under(Root, "error_pages")

AllDirectories == {Root, Under(Root, "a"), UploadDir, Pages}
PublishedFiles ==   \* each with its own name in it
  [p \in {Under(Root, "index.html"), Under(Under(Root, "a"), "page.txt"),
          Under(Root, "upload.html"), Under(UploadDir, "listing.json"), Under(Pages, "404.html"),
          Under(Pages, "500.html"), Under(Pages, "lost.html")} |-> <<Last(p)>>]

PublishedPaths == DOMAIN PublishedFiles

----------------------------------------------------------------------------
(* Configuration files                                                     *)

Sorted == <<"404.html", "500.html", "index.html", "lost.html", "none.html", "page.txt">>

PathWords ==
  [w \in {"/"} \cup ToSet(Sorted) |-> <<w>>] @@ ("/a" :> <<"/", "a">>) @@ ("/upload" :> <<"/", "upload">>)
    @@ ("/a/u" :> <<"/", "a", "/", "u">>) @@ ("/old" :> <<"/", "old">>)
    @@ ("/ext" :> <<"/", "ext">>) @@ ("http:" :> <<"http:">>) @@ ("/banana" :> <<"/", "banana">>)
Numbers ==
  ("8080" :> 8080) @@ ("9090" :> 9090) @@ ("7000" :> 7000) @@ ("100" :> 100) @@ ("70000" :> 70000)
    @@ ("404" :> 404) @@ ("314" :> 314) @@ ("1M" :> 1) @@ ("2M" :> 2) @@ ("512K" :> 512)
    @@ ("4095M" :> 4095) @@ ("4096M" :> 4096) @@ ("1000" :> 1000) @@ ("1025" :> 1025)
    @@ ("BANANA" :> 0) @@ ("1" :> 1) @@ ("1024" :> 1024) @@ ("8080;" :> 8080)
Units == [w \in DOMAIN Numbers |->
            CASE w \in {"1M", "2M", "4095M", "4096M"} -> 1048576 [] w = "512K" -> 1024 [] OTHER -> 1]
Digits == DOMAIN Numbers \ {"BANANA", "8080;"}
OthersPorts == {7000}

Block(lines) == <<<<"server", "{">>>> \o lines \o <<<<"}">>>>
LocationOf(name, lines) == <<<<"location", name, "{">>>> \o lines \o <<<<"}">>>>
Listen(port) == <<<<"listen", port>>>>

Slash == LocationOf("/", <<>>)
Uploads == LocationOf("/upload", <<<<"allowed_methods", "GET", "DELETE">>, <<"autoindex", "true">>,
                                   <<"root", "/upload">>>>)
OfA == <<<<"root", "/a">>, <<"autoindex", "true">>, <<"error_page", "404", "lost.html">>>>
A == LocationOf("/a", OfA)
ReadOnlyA == LocationOf("/a", OfA \o <<<<"allowed_methods", "GET">>>>)
NestedA == LocationOf("/a/u", <<<<"root", "/upload">>, <<"allowed_methods", "DELETE", "GET">>>>)
Old == LocationOf("/old", <<<<"redirect", "/a">>>>)
Elsewhere == LocationOf("/ext", <<<<"redirect", "http:">>>>)

Plainly == Block(Listen("8080") \o <<<<"autoindex", "true">>>>)

(* Locations given twice, with others between; nested URIs.                *)
Twofold ==
  Block(<<<<"autoindex", "true">>>> \o A \o Uploads \o Slash \o ReadOnlyA \o Old \o Listen("8080"))
Nested == Block(<<<<"autoindex", "true">>>> \o Listen("8080") \o Elsewhere \o NestedA \o ReadOnlyA \o A)

(* Two servers: what one is told must not be taken for the other.          *)
First(lines) == Block(lines \o A \o Listen("8080"))
TwoServers == First(<<<<"client_max_body_size", "512K">>>>) \o
              Block(Listen("9090") \o <<<<"allowed_methods", "GET">>, <<"root", "/a">>,
                    <<"index", "page.txt">>>> \o Uploads \o <<<<"buffer_size", "1000">>>>)

(* Files with one more line somewhere, good or bad.                        *)
MoreLines == <<<<"listen", "9090">>, <<"listen", "7000">>, <<"listen">>, <<"listen", "100">>, <<"listen", "70000">>,
             <<"root", "/">>, <<"root", "/banana">>, <<"redirect", "/a">>, <<"redirect", "/a", "/old">>,
             <<"cgi", ".py", "python3">>, <<"cgi", ".py">>, <<"cgi", ".py", "python", "3">>,
             <<"autoindex", "BANANA">>, <<"autoindex", "true", "#", "comment">>,
             <<"allowed_methods", "GET", "POST">>, <<"allowed_methods", "BANANA">>,
             <<"error_page", "404", "404.html">>, <<"error_page", "314", "404.html">>,
             <<"error_page", "404", "none.html">>, <<"index", "none.html">>,
             <<"index", "index.html">>, <<"client_max_body_size", "1M">>,
             <<"client_max_body_size", "2M">>, <<"client_max_body_size", "4095M">>,
             <<"client_max_body_size", "4096M">>, <<"client_max_body_size", "BANANA">>,
             <<"buffer_size", "1025">>, <<"buffer_size", "1000">>,
             <<"buffer_size", "1">>, <<"buffer_size", "1024">>, <<"root", "/a", "/banana">>,
             <<"#">>, <<"{">>, <<"}">>, <<"server", "{">>, <<"location", "/old">>,
             <<"location", "/old", "x">>, <<"location", "/old", "{", "}">>, <<"location", "/old", "{">>>>
Inserted(f, k, line) == SubSeq(f, 1, k) \o <<line>> \o SubSeq(f, k + 1, Len(f))

Pair == First(<<>>) \o Block(Listen("9090"))
Varied ==
  [n \in 1..(Len(Pair) + 1) * Len(MoreLines) |->
     Inserted(Pair, (n - 1) \div Len(MoreLines), MoreLines[((n - 1) % Len(MoreLines)) + 1])]
Odd == <<<<>>, Pair \o Block(<<>>), Pair \o Block(Slash), Block(<<>>), Block(<<<<"listen">>>>),
         Pair \o Block(Listen("8080")), Block(A), Block(Listen("7000")), Block(Listen("8080;")),
         Block(<<<<"listen", "8080", "#", "comment">>>>), Block(<<<<"listen", "8080", "9090">>>>),
         Pair \o Block(<<<<"autoindex", "true">>>>) \o Block(<<<<"autoindex", "true">>>>)>>

----------------------------------------------------------------------------
(* Requests                                                                *)

Plain(method, uri) ==
  [method |-> method, uri |-> uri, media |-> "none", body |-> <<>>, data |-> <<>>, fields |-> <<>>]

Post(uri, media, body, data, fields) ==
  [method |-> "POST", uri |-> uri, media |-> media, body |-> body, data |-> data, fields |-> fields]

TheBoundary == <<"B", "b">>
Png == <<"content-type: image/png">>
Jpg == <<"content-type: image/jpeg">>
Text == <<"content-type: text/plain">>
Unsupported == <<"content-type: application/x">>

File(type, data) == Post(<<"/">>, "multipart", Part(type, data), data, <<>>)
Lookalike == <<"CR", "LF", "-", "-">> \o TheBoundary   \* data like a delimiter
Short(n) == [File(Png, <<"x">>) EXCEPT !.body = SubSeq(@, 1, n), !.data = <<>>]

Sent(uri, fields, plain) == Post(uri, "form", FormBody(fields, plain), <<>>, fields)
Twice == <<<<<<"n">>, <<"v">>>>, <<<<"m", "=">>, <<"&", "x", "=", "%">>>>, <<<<"n">>, <<"w", "=">>>>>>

Spaced == <<<<<<"a", "SP">>, <<"1", "SP", "+">>>>, <<<<"a", "+">>, <<"2", "LF">>>>>>

UploadUri(name) == <<"/", "upload", "/", name>>
Detour == <<"/", "upload", "/", "/", ".", "/", "image.png">>   \* the same file

Reads == {Plain("GET", uri) : uri \in {<<"/">>, <<"/", "upload", "/">>, <<"a">>,
                                      <<"/", "a", "/", "none.txt">>, UploadUri("image.png"),
                                      UploadUri("listing.json"), <<"/", "a", "/", "..", "/", "a">>}}
Removals == {Plain("DELETE", uri) : uri \in {UploadUri("image.png"), UploadUri("listing.json"),
                                             UploadUri("hello.txt"), <<"/", "upload", "/">>,
                                             <<"/", "a", "/", "page.txt">>, Detour, <<"/", "upload.html">>}}
Uploading == {File(Png, <<"x">>), File(Png, Lookalike), File(Jpg, <<"y">>), File(Text, <<"t">>),
              Post(<<"/">>, "text", <<"u">>, <<"u">>, <<>>)}

Misfits == {File(Unsupported, <<"x">>), File(<<>>, <<"x">>), File(Png, <<>>), Short(3), Short(17),
            [File(Png, <<"x">>) EXCEPT !.body[3] = "x"],
            Post(<<"/">>, "png", <<"x">>, <<>>, <<>>), Post(<<"/">>, "form", <<"n", "SP">>, <<>>, <<>>)}

Forms == {Sent(<<"/">>, Twice, {"="}), Sent(<<"/">>, Spaced, {}), Sent(<<"/">>, Spaced, {"SP"}),
          Sent(UploadUri("listing.json"), <<<<<<"n">>, <<"=">>>>>>, {})}

(* Where a request goes.                                                   *)
Paths == {<<"/", "a">>, <<"/", "a", "/", "page.txt">>, <<"/", "a", "?", "x">>,
          <<"/", "a", "/", "u", "/">>, <<"/", "a", "/", "u", "/", "listing.json">>,
          <<"/", "old", "/", "b">>, <<"/", "ext">>}
Routes == {Plain(method, uri) : method \in {"GET", "DELETE"}, uri \in Paths}

SomeFiles ==
  <<Plainly, Twofold, Nested, TwoServers>> \o Varied \o Odd
SomeInputs ==
  [n \in DOMAIN SomeFiles |->
     CASE n = 1 -> Reads \cup Removals \cup Uploading \cup Misfits \cup Forms
       [] n = 2 -> Routes \cup Removals
                     \cup {File(Png, <<"x">>), [File(Png, <<"x">>) EXCEPT !.uri = <<"/", "old">>]}
       [] n \in {3, 4} -> Routes
       [] OTHER -> {}]

(* What it takes to lose an upload.                                        *)
PlainFile == <<Plainly>>
FewInputs ==
  <<{Plain("DELETE", UploadUri("listing.json")),
     Plain("DELETE", <<"/", "upload", "/">>), File(Png, <<"x">>)}>>

(* The hypothesis NamesApart of SiteProofs, on the names that come first.  *)
ASSUME NamesApartAtFirst ==
  \A type \in {"", "png", "jpg"} : \A k, j \in 0..120 :
    /\ ImageName(k, type) = ImageName(j, type) => k = j
    /\ Last(ImageName(k, type)) \notin {"autoindex.html", "listing.json", "hello.txt", "/"}
=============================================================================
