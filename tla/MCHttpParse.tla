---------------------------- MODULE MCHttpParse ----------------------------
(* Instances of HttpParse for TLC. *)
EXTENDS HttpParse, SequencesExt

CRLF == <<"CR", "LF">>
Get(url, version) == <<"GET", "SP">> \o url \o <<"SP", version>> \o CRLF

Good == {Get(<<"/">>, "HTTP/1.0"), Get(<<"http://host", "/1">>, "HTTP/1.0"),
         Get(<<"/hidden">>, "HTTP/1.0"), Get(<<"/missing">>, "HTTP/1.0")}

Refused ==
    {Get(<<"/">>, "HTTP/1.1"), Get(<<"page">>, "HTTP/1.0"),
     <<"GET", "SP", "SP", "/", "SP">> \o CRLF, <<"GET", "SP", "/">> \o CRLF,
     <<"POST", "SP", "/", "SP", "HTTP/1.0">> \o CRLF}

Headers ==
    {<<"Connection:", "SP", "keep-alive">> \o CRLF, <<"Host:", "x">> \o CRLF,
     <<"Content-length:", "SP", "2">> \o CRLF, <<"Content-length:", "9">> \o CRLF}

Bodies == {<<>>, <<"x", "x">>, <<"x", "CR", "LF", "x", "x", "x">>}

\* Whole requests, those that are accepted with up to two headers and a body.
Requests ==
    {line \o FlattenSeq(headers) \o CRLF \o body :
        line \in Good, headers \in BoundedSeq(Headers, 2), body \in Bodies}
    \cup {line \o header \o CRLF : line \in Refused, header \in Headers}

\* Every way to end, or not to end, a few lines.
Lines == BoundedSeq({"CR", "LF", "x"}, 4)

SomeStreams == Requests \cup Lines
               \cup {Get(<<"/">>, "HTTP/1.0") \o l : l \in Lines}

OneGet == {Get(<<"/">>, "HTTP/1.0") \o <<"Host:", "x">> \o CRLF \o CRLF}

SomeFiles == [p \in {"/", "/judge.html", "/1", "/log.html", "/hidden", "/missing"} |->
                CASE p = "/hidden" -> "hidden" [] p = "/missing" -> "absent"
                  [] OTHER -> "file"]
=============================================================================
