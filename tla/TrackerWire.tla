---------------------------- MODULE TrackerWire ----------------------------
(***************************************************************************)
(* What is said between a torrent and a tracker: the trackers of a torrent *)
(* file, Http::Uri and the request, Http::Response and the assembler that  *)
(* puts it together, TrackerResponse, and what Tracker makes of it.  When  *)
(* announces are made is in Announce.  A word is one symbol, as in         *)
(* Bencode; times are in seconds.                                          *)
(***************************************************************************)
EXTENDS Metadata

CONSTANTS
    Hex,            \* symbols other than letters and digits, each with its hexadecimal digits
    Hosts,          \* the addresses that getaddrinfo knows
    AddressSize,    \* symbols of an address in a compact list; the last one is the port
    PortOf,         \* the port that such a symbol means
    PortBits,       \* 16 in the code
    IntBits,        \* 32
    MinInterval     \* 120 seconds in the code

ASSUME TrackerAssumption == {AddressSize, PortBits, IntBits, MinInterval} \subseteq Nat \ {0}

----------------------------------------------------------------------------
\* Http::Uri and Http::Request.

\* std::string::find, 0 for npos.
Find(text, pattern, from) ==
    LET at == {n \in from..Len(text) - Len(pattern) + 1 :
                  SubSeq(text, n, n + Len(pattern) - 1) = pattern}
    IN  IF at = {} THEN 0 ELSE Min(at)

NoUri == [scheme |-> <<>>, host |-> <<>>, port |-> <<>>, path |-> <<>>]
SplitUri(text, schemeEnd, colon, slash) ==
    LET hostEnd == IF colon # 0 /\ colon < slash THEN colon ELSE slash
    IN  IF schemeEnd = 0 THEN NoUri
        ELSE IF slash = 0 THEN [NoUri EXCEPT !.scheme = SubSeq(text, 1, schemeEnd - 1)]
        ELSE [scheme |-> SubSeq(text, 1, schemeEnd - 1),
              host   |-> SubSeq(text, schemeEnd + 3, hostEnd - 1),
              port   |-> SubSeq(text, hostEnd + 1, slash - 1),
              path   |-> SubSeq(text, slash, Len(text))]
UriAt(text, schemeEnd) ==
    SplitUri(text, schemeEnd, Find(text, <<":">>, schemeEnd + 3), Find(text, <<"/">>, schemeEnd + 3))
Uri(text) == UriAt(text, Find(text, <<":", "/", "/">>, 1))

ValidUri(uri) == uri.scheme # <<>> /\ uri.host # <<>> /\ uri.path # <<>>

\* What strchr finds in "-._~": also the zero byte, which ends that text.
Unreserved == {"-", ".", "_", "~", "NUL"}

Escape(s) ==
    FlattenSeq([i \in DOMAIN s |-> IF s[i] \in DOMAIN Hex \ Unreserved
                                   THEN <<"%", Hex[s[i]]>> ELSE <<s[i]>>])

\* Mutant: the values are not escaped.
PlainParameters(parameters) ==
    LET names == SetToSortSeq(DOMAIN parameters, Before)
    IN  FlattenSeq([i \in DOMAIN names |-> <<IF i = 1 THEN "?" ELSE "&">> \o Escape(names[i])
                                             \o <<"=">> \o parameters[names[i]]])

StuffParameters(parameters) ==
    LET names == SetToSortSeq(DOMAIN parameters, Before)
    IN  FlattenSeq([i \in DOMAIN names |-> <<IF i = 1 THEN "?" ELSE "&">> \o Escape(names[i])
                                             \o <<"=">> \o Escape(parameters[names[i]])])

\* absolutePath and Request::serialize: a path that has a query gets another one.
Request(uri, parameters) ==
    [get  |-> uri.path \o StuffParameters(parameters),
     host |-> uri.host \o (IF uri.port = <<>> THEN <<>> ELSE <<":">> \o uri.port)]

----------------------------------------------------------------------------
\* The trackers of a torrent.

\* constructAnnounceList: the tiers that have a URI.
AnnounceList(metadata) ==
    LET list == Path(metadata, <<Key("announce-list")>>)
        Tier(tier) == [i \in DOMAIN tier.list |-> tier.list[i].string]
    IN  IF Exists(metadata, <<Key("announce-list")>>)
        THEN SelectSeq([i \in DOMAIN list.list |-> Tier(list.list[i])], LAMBDA t : t # <<>>)
        ELSE <<>>

\* populateTrackerRegistryFromAnnounceList and -Url.
Usable(text) == ValidUri(Uri(text)) /\ Uri(text).scheme = <<"http">>
AnnounceUri(metadata) == Path(metadata, <<Key("announce")>>).string
Tiers(metadata) ==
    LET tiers == AnnounceList(metadata)
    IN  IF tiers # <<>> THEN [i \in DOMAIN tiers |-> SelectSeq(tiers[i], Usable)]
        ELSE << <<AnnounceUri(metadata)>> >>

\* The constructor of Tracker throws, and createTorrent with it.
TrackersThrow(metadata) ==
    \E i \in DOMAIN Tiers(metadata) : \E j \in DOMAIN Tiers(metadata)[i] :
        ~ValidUri(Uri(Tiers(metadata)[i][j]))

----------------------------------------------------------------------------
\* Http::Response: what can be said of the text that has come so far.

CRLF == "CRLF"
Versions == {"HTTP/1.0", "HTTP/1.1"}

\* A character that is no digit counts as what it is behind the zero.
StatusCode(text) ==
    LET Ord(c) == IF c \in ToSet(Digits) THEN DigitValue[c] ELSE 17
    IN  100 * Ord(text[2]) + 10 * Ord(text[3]) + Ord(text[4])

\* The last header of that name counts; 0 is the same as none.
ContentLength(text, end) ==
    LET lines == {n \in 1..end : text[n] = CRLF /\ text[n + 1] = "Content-Length:"}
    IN  IF lines = {} THEN -1 ELSE ExtractInteger(SubSeq(text, Max(lines) + 2, Len(text))).value

WithBody(code, body, length) ==
    [state |-> IF length > 0 /\ Len(body) = length THEN "complete" ELSE "more data",
     code |-> code, body |-> body]
Headed(text, code, ends) ==
    IF code \notin 100..599 THEN [state |-> "invalid", code |-> code, body |-> <<>>]
    ELSE IF ends = {} THEN [state |-> "more data", code |-> code, body |-> <<>>]
    ELSE WithBody(code, SubSeq(text, Min(ends) + 2, Len(text)), ContentLength(text, Min(ends)))
Response(text) ==
    IF Len(text) < 4 THEN [state |-> "more data", code |-> -1, body |-> <<>>]
    ELSE IF text[1] \notin Versions THEN [state |-> "invalid", code |-> -1, body |-> <<>>]
    ELSE Headed(text, StatusCode(text),
                {n \in 1..Len(text) - 1 : text[n] = CRLF /\ text[n + 1] = CRLF})

\* ResponseAssembler: told are the responses that went to processResponse, or "error".
NewAssembler == [buffer |-> <<>>, told |-> <<>>, closed |-> FALSE]
Told(a, response) ==
    [a EXCEPT !.closed = response.state \in {"complete", "invalid"},
              !.told   = IF response.state = "complete" THEN Append(@, response) ELSE @]
AssembleResponse(a, data) ==
    IF a.closed THEN a
    ELSE Told([a EXCEPT !.buffer = @ \o data], Response(a.buffer \o data))
Shutdown(a) == IF a.told # <<>> THEN a ELSE [a EXCEPT !.told = <<Response(a.buffer)>>]

----------------------------------------------------------------------------
\* TrackerResponse.

ValidPeer(peer) ==
    /\ \A word \in {"peer id", "ip"} : Resolves(peer, <<Key(word)>>, "string")
    /\ Resolves(peer, <<Key("port")>>, "integer")

\* The constructor: an answer that has only a failure reason is not valid.
ValidAnswer(answer) ==
    LET peers == Path(answer, <<Key("peers")>>)
    IN  /\ \A word \in {"interval", "complete", "incomplete"} :
              Resolves(answer, <<Key(word)>>, "integer")
        /\ Optional(answer, <<Key("min interval")>>, "integer")
        /\ \A word \in {"failure reason", "tracker id"} : Optional(answer, <<Key(word)>>, "string")
        /\ \/ ListOf(peers, ValidPeer)
           \/ Is("string", peers) /\ Len(peers.string) % AddressSize = 0

Failed(answer) == Exists(answer, <<Key("failure reason")>>)

\* announceInterval(): an int.
Interval(answer) ==
    ((Path(answer, <<Key("interval")>>).integer + 2^(IntBits - 1)) % 2^IntBits) - 2^(IntBits - 1)
TrackerId(answer) ==
    IF Exists(answer, <<Key("tracker id")>>) THEN Path(answer, <<Key("tracker id")>>).string
    ELSE <<>>

\* zipToHostAddress and HostAddress::initialize.
AddressAt(zipped, offset) ==
    [ip |-> SubSeq(zipped, offset + 1, offset + AddressSize - 1),
     port |-> PortOf[zipped[offset + AddressSize]]]
ValidAddress(address) == address.ip \in Hosts

PeersOf(answer) ==
    LET peers == Path(answer, <<Key("peers")>>)
        all == IF Is("string", peers)
               THEN [i \in 1..Len(peers.string) \div AddressSize |->
                        AddressAt(peers.string, (i - 1) * AddressSize)]
               ELSE [i \in DOMAIN peers.list |->
                        [ip   |-> Path(peers.list[i], <<Key("ip")>>).string,
                         port |-> Path(peers.list[i], <<Key("port")>>).integer % 2^PortBits]]
    IN  SelectSeq(all, ValidAddress)

----------------------------------------------------------------------------
\* Tracker.  sent are the parameters of its announces.

NewTracker(uri, now) ==
    [uri |-> uri, status |-> "failed", suggested |-> now, succeeded |-> 0, failed |-> 0,
     frozen |-> FALSE, base |-> [downloaded |-> 0, uploaded |-> 0], id |-> <<>>,
     last |-> NoObject, sent |-> <<>>]

\* The numbers are those of unsigned integers: what is left after more than the torrent
\* was downloaded is very much.
Unsigned(n) == Number(n % 2^Width)
Parameters(t, torrent, event) ==
    (Key("info_hash") :> torrent.hash) @@ (Key("peer_id") :> torrent.id) @@
    (Key("port") :> torrent.port) @@ (Key("compact") :> <<"1">>) @@ (Key("no_peer_id") :> <<"1">>) @@
    (Key("left") :> Unsigned(torrent.size - torrent.downloaded)) @@
    (Key("downloaded") :> Unsigned(torrent.downloaded - t.base.downloaded)) @@
    (Key("uploaded") :> Unsigned(torrent.uploaded - t.base.uploaded)) @@
    (Key("event") :> event) @@
    (IF t.id = <<>> THEN <<>> ELSE Key("trackerid") :> t.id)
Send(t, torrent, event) ==
    [t EXCEPT !.status = "in process", !.sent = Append(@, Parameters(t, torrent, event))]

Announce(t, torrent) ==
    IF t.succeeded > 0 THEN Send(t, torrent, <<>>)
    ELSE Send([t EXCEPT !.frozen = FALSE,
                        !.base = [downloaded |-> torrent.downloaded, uploaded |-> torrent.uploaded]],
              torrent, <<"started">>)
AnnounceStopped(t, torrent) ==
    Send([t EXCEPT !.frozen = TRUE, !.succeeded = 0, !.failed = 0], torrent, <<"stopped">>)

Fail(t, at) ==
    [t EXCEPT !.suggested = at, !.status = "failed", !.failed = IF t.frozen THEN @ ELSE @ + 1]
Succeed(t, at) ==
    [t EXCEPT !.suggested = at, !.status = "succeeded",
              !.succeeded = IF t.frozen THEN @ ELSE @ + 1]

\* reset(): the interval, which Time asserts is not negative, is added as milliseconds.
Reset(t, now) ==
    Fail(t, IF t.suggested > now THEN t.suggested
            ELSE IF t.last # NoObject /\ ~Failed(t.last) THEN now + Interval(t.last) \div 1000
            ELSE now + 20 * 60)

\* processGoodHttpResponse.
Answered(t, now, answer) ==
    IF Failed(answer) THEN [Fail(t, now + 20 * 60) EXCEPT !.last = answer]
    ELSE [Succeed(t, now + IF Interval(answer) >= MinInterval THEN Interval(answer) ELSE 20 * 60)
             EXCEPT !.last = answer, !.id = TrackerId(answer)]
ProcessGood(t, now, parsed) ==
    IF ~parsed.found THEN Fail(t, now + 20 * 60)
    ELSE IF ~ValidAnswer(parsed.value) THEN Fail(t, now + 20 * 60)
    ELSE Answered(t, now, parsed.value)

\* processTrackerResponse: how long to wait, by the kind of the answer.
Delay(code) ==
    CASE code \in 300..399 -> 24000 * 3600
      [] code \in {500, 502, 503, 504} -> 2 * 60
      [] code \in {501, 505} -> 2 * 3600
      [] code \in {403, 404, 408} \cup 506..599 -> 20 * 60
      [] OTHER -> 3600
ProcessTrackerResponse(t, now, response) ==
    IF response.state = "invalid" THEN Fail(t, now + 5 * 60)    \* handleInvalidHttpResponse
    ELSE IF response.code \in 200..299 THEN ProcessGood(t, now, Parse(response.body))
    ELSE Fail(t, now + Delay(response.code))
HandleConnectError(t, now) == Fail(t, now + 20 * 60)

\* An exchange: the text comes in pieces, then the connection ends.
Exchange(t, now, pieces) ==
    ProcessTrackerResponse(t, now, Last(Shutdown(FoldLeft(AssembleResponse, NewAssembler, pieces)).told))

----------------------------------------------------------------------------
\* Properties.

Address1 == <<"http", ":", "/", "/">>
Names == {<<"/">>, <<"/", "a", ":", "/">>}

\* What the other side makes of a request.
PartsOf(text, symbol) ==
    FoldLeft(LAMBDA parts, c : IF c = symbol THEN Append(parts, <<>>)
                               ELSE [parts EXCEPT ![Len(parts)] = Append(@, c)],
             << <<>> >>, text)
Unescaped(s) ==
    LET At(i) == IF i > 1 /\ s[i - 1] = "%" THEN CHOOSE c \in DOMAIN Hex : Hex[c] = s[i] ELSE s[i]
    IN  FlattenSeq([i \in DOMAIN s |-> IF s[i] = "%" THEN <<>> ELSE <<At(i)>>])
ReadParameters(query) ==
    LET all == [i \in DOMAIN PartsOf(query, "&") |-> PartsOf(PartsOf(query, "&")[i], "=")]
    IN  {<<Unescaped(all[i][1]), Unescaped(all[i][2])>> : i \in DOMAIN all}

\* A URI is taken apart into what it was made of, and a tracker that takes any byte reads
\* the parameters that were set.  In what it is asked there is no byte that a request line
\* cannot hold, but for a known fault: the zero bytes of a value, which escape() leaves as
\* they are (Http::Uri, Http::Request).
RequestsRead ==
    \A port \in {<<>>, <<"80">>}, path \in Names :
        LET colon == IF port = <<>> THEN <<>> ELSE <<":">> \o port
            uri   == Uri(Address1 \o <<"host">> \o colon \o path)
        IN  /\ uri = [scheme |-> <<"http">>, host |-> <<"host">>, port |-> port, path |-> path]
            /\ \A v, w \in BoundedSeq(DOMAIN Hex \cup {"a"}, 2) :
                  LET request == Request(uri, (Key("left") :> v) @@ (Key("port") :> w))
                      parts   == PartsOf(request.get, "?")
                      asked   == ToSet(parts[2]) \cap DOMAIN Hex
                  IN  /\ Len(parts) = 2 /\ parts[1] = path
                      /\ asked \subseteq {"&", "=", "%"} \cup Unreserved
                      /\ ("NUL" \in asked) = ("NUL" \in ToSet(v) \cup ToSet(w))
                      /\ ReadParameters(parts[2]) = {<<Key("left"), v>>, <<Key("port"), w>>}

\* Answers of trackers: peers in both forms, and the edges of the interval.
SomePeers == <<[ip |-> <<"ip">>, port |-> "p"], [ip |-> <<"nowhere">>, port |-> "p"]>>
Compact == String(FlattenSeq([i \in DOMAIN SomePeers |-> Append(SomePeers[i].ip, SomePeers[i].port)]))
Listed ==
    List(<<Dictionary((Key("ip") :> String(SomePeers[1].ip)) @@ (Key("peer id") :> String(<<"a">>)) @@
                      (Key("port") :> Integer(PortOf["p"] + 2^PortBits)))>>)
AnswerWith(interval, peers) ==
    (Key("interval") :> Integer(interval)) @@ (Key("complete") :> Integer(1)) @@
    (Key("incomplete") :> Integer(0)) @@ (Key("peers") :> peers)
GoodAnswers ==
    {AnswerWith(interval, Compact) : interval \in {-1, MinInterval - 1, MinInterval, 2^(IntBits - 1)}}
        \cup {AnswerWith(0, Listed)}
BadAnswers ==
    {AnswerWith(1, String(<<"ip">>)), AnswerWith(1, Integer(1)),
     Key("failure reason") :> String(<<"a">>),
     (Key("failure reason") :> String(<<"a">>)) @@ AnswerWith(1, Compact)}

\* Of an answer of which a part came, in two pieces, the tracker is told once.  It has
\* peers from it only if all of it came, the ones it named that can be resolved; and
\* whatever came, the next announce is not sooner than the least interval (Response,
\* ResponseAssembler, TrackerResponse, Tracker::processTrackerResponse).
AnswersRead ==
    \A answer \in GoodAnswers \cup BadAnswers, more \in {-1, 0, 1, 99} :
        LET body   == Serialize(Dictionary(answer))
            length == IF more = 99 THEN <<>>
                      ELSE <<CRLF, "Content-Length:">> \o Decimal(Len(body) + more)
            text   == <<"HTTP/1.1", "2", "0", "0">> \o length \o <<CRLF, CRLF>> \o body
        IN  \A i \in 0..Len(text) : \A n \in {i, Max({i, Len(text) - 1}), Len(text)} :
              LET pieces == <<SubSeq(text, 1, i), SubSeq(text, i + 1, n)>>
                  told   == Shutdown(FoldLeft(AssembleResponse, NewAssembler, pieces)).told
                  t      == Exchange(NewTracker(<<>>, 0), 0, pieces)
              IN  /\ Len(told) = 1 /\ t.suggested >= MinInterval
                  /\ t.status = "succeeded" =>
                        /\ n = Len(text) /\ answer \in GoodAnswers
                        /\ PeersOf(t.last) = <<[ip |-> <<"ip">>, port |-> PortOf["p"]]>>
                  /\ n = Len(text) /\ answer \in GoodAnswers /\ more \in {0, 99} =>
                        t.status = "succeeded"
DelaysKept ==
    \A a, b, c \in ToSet(Digits) \cup {CRLF} :
        LET t == Exchange(NewTracker(<<>>, 0), 0, << <<"HTTP/1.0", a, b, c, CRLF, CRLF>> >>)
        IN  \A u \in {t, HandleConnectError(t, 0)} :
              u.status = "failed" /\ u.suggested >= MinInterval

\* Announces, also after one that took too long, answers to any of them, stops and
\* progress, in any order.
Deed(x, deed) ==
    LET n     == Len(x.t.sent)
        Sent(t) == [x EXCEPT !.t = t, !.at = Append(@, x.torrent.downloaded), !.good = Append(@, FALSE)]
    IN  CASE deed = "announce" ->
                Sent(Announce(IF x.t.status = "in process" THEN Reset(x.t, 0) ELSE x.t, x.torrent))
          [] deed = "stop" /\ x.t.succeeded > 0 -> Sent(AnnounceStopped(x.t, x.torrent))
          [] deed = "answer" /\ n > 0 ->
                [x EXCEPT !.t = Answered(x.t, 0, Dictionary(AnswerWith(1, Compact))), !.good[n] = TRUE]
          [] deed = "progress" -> [x EXCEPT !.torrent.downloaded = @ + 1]
          [] OTHER -> x
Deeds == {"announce", "stop", "answer", "progress"}
NewTorrent == [hash |-> <<"a">>, id |-> <<"a">>, port |-> <<"80">>, size |-> 1,
               downloaded |-> 1, uploaded |-> 0]

\* A tracker is told "started" until it answers, and after every stop again; and what
\* it is told of the progress is counted from the last "started" (Tracker::announce and
\* announceStopped with their frozen counters).
CountsTrue ==
    \A deeds \in [1..7 -> Deeds] :
        LET x == FoldLeft(Deed, [t |-> NewTracker(<<>>, 0), torrent |-> NewTorrent,
                                 at |-> <<>>, good |-> <<>>], deeds)
            Event(n)  == x.t.sent[n][Key("event")]
            Began(n)  == Max({m \in 1..n : Event(m) = <<"started">>})
            Stopped(m, n) == \E k \in m..n : Event(k) = <<"stopped">>
        IN  \A n \in DOMAIN x.t.sent :
              /\ Event(1) = <<"started">>
              /\ x.t.sent[n][Key("downloaded")] = Number(x.at[n] - x.at[Began(n)])
              /\ Event(n) # <<"stopped">> =>
                    (Event(n) = <<>>) = \E m \in 1..n-1 : x.good[m] /\ ~Stopped(m, n)

\* Every tracker of the list that can be announced to is announced to, or the only one
\* when there is no list; which is the only one whose URI nobody has looked at
\* (constructAnnounceList, GlobalTorrentRegistry, Tracker).
Udp == <<"udp", ":", "/", "/", "host", "/">>
Uris == {Address1 \o <<"host", "/">>, Address1 \o <<"host">>, Udp, <<"a">>}
TrackersRight ==
    \A announce \in Uris, list \in BoundedSeq(BoundedSeq(Uris, 1), 2) :
        LET tiers == List([i \in DOMAIN list |-> List([j \in DOMAIN list[i] |-> String(list[i][j])])])
            m == Dictionary((Key("announce") :> String(announce)) @@ (Key("announce-list") :> tiers))
            all == UNION {ToSet(list[i]) : i \in DOMAIN list}
            made == UNION {ToSet(Tiers(m)[i]) : i \in DOMAIN Tiers(m)}
        IN  IF all = {} THEN made = {announce} /\ TrackersThrow(m) = (announce \notin {Udp, Address1 \o <<"host", "/">>})
            ELSE made = all \cap {Address1 \o <<"host", "/">>} /\ ~TrackersThrow(m)

WordsUnderstood == RequestsRead /\ AnswersRead /\ DelaysKept /\ CountsTrue /\ TrackersRight
=============================================================================
