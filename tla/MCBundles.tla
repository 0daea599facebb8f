----------------------------- MODULE MCBundles -----------------------------
(***************************************************************************)
(* Torrents with one piece and two files in a folder, one of them deeper,  *)
(* and some of which the code makes less.                                  *)
(***************************************************************************)
EXTENDS Bundles

MCBytes == <<".utf-8", "announce", "announce-list", "comment", "compact", "complete",
             "created by", "creation date", "dload-rate", "downloaded", "encoding", "event", "failure reason", "files",
             "incomplete", "info", "info_hash", "interval", "ip", "left", "length", "md5sum",
             "min interval", "name", "no_peer_id", "path", "peer id", "peer_id", "peers",
             "piece length", "pieces", "port", "private", "sched-files", "storage-dir",
             "tracker id", "trackerid", "uploaded">>

MCHex == "&" :> "26" @@ "%" :> "25" @@ "=" :> "3D" @@ "?" :> "3F" @@ "-" :> "2D" @@ "NUL" :> "00"
MCHosts == {<<"ip">>}
MCPortOf == "p" :> 3

Server  == <<"http", ":", "/", "/", "host", "/">>
Nameless == <<"http", ":", "/", "/", "host">>

Word1(w) == String(<<w>>)
FileAt(path, size) ==
    Dictionary((Key("length") :> Integer(size)) @@
               (Key("path") :> List([i \in DOMAIN path |-> Word1(path[i])])))
Files == <<FileAt(<<"d", "e", "b">>, 1), FileAt(<<"d", "c">>, 2)>>

InfoWith(files) ==
    (Key("name") :> Word1("n")) @@ (Key("piece length") :> Integer(4)) @@
    (Key("pieces") :> Word1("h")) @@ (Key("files") :> List(files))
Torrent(info) ==
    (Key("announce") :> String(Server)) @@ (Key("creation date") :> Integer(1)) @@
    (Key("info") :> Dictionary(info))

Plain     == (Key("announce-list") :> List(<<List(<<Word1("u"), String(Server)>>)>>)) @@
             (Key("announce") :> Word1("u")) @@ Torrent(InfoWith(Files))
Nowhere   == (Key("announce") :> String(Nameless)) @@ Torrent(InfoWith(Files))
Utf8      == (<<"name", ".utf-8">> :> Word1("m")) @@ InfoWith(Files)
Undated   == Without(Plain, Key("creation date"))
Empty     == Torrent(InfoWith(<<>>))

\* The info dictionary with its last key first.
Swapped(info) ==
    <<"d">> \o Word(Key("announce")) \o Serialize(String(Server))
        \o Word(Key("creation date")) \o Serialize(Integer(1))
        \o Word(Key("info"))
        \o <<"d">> \o Word(Key("pieces")) \o Serialize(info[Key("pieces")])
        \o Tail(Serialize(Dictionary(Without(info, Key("pieces"))))) \o <<"e">>

MCOddFiles == {Swapped(Utf8)}
MCTorrentFiles ==
    {Serialize(Dictionary(t)) : t \in {Plain, Undated, Empty, Nowhere}} \cup MCOddFiles
MCDirectories == {<<>>, <<"p">>}
=============================================================================
