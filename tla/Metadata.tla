------------------------------ MODULE Metadata ------------------------------
(***************************************************************************)
(* What a bundle is made of: TorrentModel and TorrentConfiguration, how    *)
(* they are read from a text, and what is worked out of a torrent file.    *)
(* The hash of an info dictionary is its text.                             *)
(***************************************************************************)
EXTENDS Bencode, FiniteSets

CONSTANTS
    HashSize,       \* symbols of a piece hash
    MaxPieceSize    \* 32 MB in the code

Key(word) == <<word>>
Info(word) == <<Key("info"), Key(word)>>

ASSUME HashSize \in Nat \ {0} /\ MaxPieceSize \in Nat

----------------------------------------------------------------------------
\* tryValidateMetadata.

ListOf(object, Ok(_)) == Is("list", object) /\ \A i \in DOMAIN object.list : Ok(object.list[i])

ValidFile(file) ==
    /\ Optional(file, <<Key("md5sum")>>, "string")
    /\ Resolves(file, <<Key("length")>>, "integer")
    /\ Path(file, <<Key("length")>>).integer >= 0
    /\ ListOf(Path(file, <<Key("path")>>), LAMBDA name : Is("string", name))

ValidAnnounce(metadata) ==
    /\ Resolves(metadata, <<Key("announce")>>, "string")
    /\ Optional(metadata, <<Key("creation date")>>, "integer")
    /\ \A word \in {"created by", "comment", "encoding"} :
          Optional(metadata, <<Key(word)>>, "string")
    /\ Exists(metadata, <<Key("announce-list")>>) =>
          ListOf(Path(metadata, <<Key("announce-list")>>),
                 LAMBDA tier : ListOf(tier, LAMBDA uri : Is("string", uri)))

ValidFiles(metadata) ==
    IF Exists(metadata, Info("files"))
    THEN ListOf(Path(metadata, Info("files")), ValidFile)
    ELSE /\ Resolves(metadata, Info("length"), "integer")
         /\ Path(metadata, Info("length")).integer >= 0
         /\ Optional(metadata, Info("md5sum"), "string")

Valid(metadata) ==
    LET pieceSize == Path(metadata, Info("piece length"))
        pieces    == Path(metadata, Info("pieces"))
    IN  /\ ValidAnnounce(metadata)
        /\ Resolves(metadata, <<Key("info")>>, "dictionary")
        /\ Optional(metadata, Info("private"), "integer")
        /\ Resolves(metadata, Info("name"), "string")
        /\ Is("integer", pieceSize) /\ pieceSize.integer \in 1..MaxPieceSize
        /\ ValidFiles(metadata)
        /\ Is("string", pieces)
        /\ pieces.string # <<>> /\ Len(pieces.string) % HashSize = 0

----------------------------------------------------------------------------
\* RelinkAzureusKeys: a string with the key x.utf-8 takes the place of the one with
\* the key x, in every dictionary that is not in a list.

Sibling(key) == SubSeq(key, 1, Len(key) - 1)
Relinked(d) ==
    {key \in DOMAIN d : /\ Last(key) = ".utf-8" /\ Len(key) > 1
                        /\ Sibling(key) \in DOMAIN d
                        /\ Is("string", d[key]) /\ Is("string", d[Sibling(key)])}

RECURSIVE RelinkAzureusKeys(_)
RelinkAzureusKeys(object) ==
    IF ~Is("dictionary", object) THEN object
    ELSE LET d == object.dictionary
             Value(key) == IF \E k \in Relinked(d) : Sibling(k) = key
                           THEN d[key \o <<".utf-8">>] ELSE d[key]
         IN  Dictionary([key \in DOMAIN d \ Relinked(d) |-> RelinkAzureusKeys(Value(key))])

----------------------------------------------------------------------------
\* TorrentModel.

FileOf(file) ==
    [path |-> [i \in DOMAIN Path(file, <<Key("path")>>).list |->
                  Path(file, <<Key("path")>>).list[i].string],
     size |-> Path(file, <<Key("length")>>).integer]

\* constructFileList.
FileList(metadata) ==
    IF Exists(metadata, Info("files"))
    THEN LET files == Path(metadata, Info("files")).list
         IN  [i \in DOMAIN files |-> FileOf(files[i])]
    ELSE <<[path |-> <<Path(metadata, Info("name")).string>>,
            size |-> Path(metadata, Info("length")).integer]>>

\* Mutant: of everything in the torrent file.
HashAll(metadata) == Serialize(metadata)

\* constructInfoHash.
InfoHash(metadata) == Serialize(Path(metadata, <<Key("info")>>))

PieceCount(metadata) == Len(Path(metadata, Info("pieces")).string) \div HashSize

\* TorrentModel::toString and fromString.
ModelText(metadata) == Serialize(metadata)
Model(parsed) ==
    IF parsed.found
    THEN IF Valid(parsed.value)
         THEN [found |-> TRUE, value |-> RelinkAzureusKeys(parsed.value)] ELSE Nothing
    ELSE Nothing
ModelFrom(text) == Model(Parse(text))

----------------------------------------------------------------------------
\* TorrentConfiguration: the rate limit stands for the five settings that are numbers.

NewConfiguration == [files |-> {}, directory |-> <<>>, rate |-> -1]

ConfigurationText(conf) ==
    Serialize(Dictionary(
        (Key("dload-rate") :> Integer(conf.rate)) @@
        (Key("sched-files") :> List([i \in 1..Cardinality(conf.files) |->
                                        Integer(SetToSortSeq(conf.files, <)[i])])) @@
        (Key("storage-dir") :> String(conf.directory))))

Configuration(parsed) ==
    LET Has(word, kind) == Resolves(parsed.value, <<Key(word)>>, kind)
        files == Path(parsed.value, <<Key("sched-files")>>)
    IN  IF ~parsed.found THEN Nothing
        ELSE IF /\ Has("dload-rate", "integer") /\ Has("storage-dir", "string")
                /\ ListOf(files, LAMBDA file : Is("integer", file))
        THEN [found |-> TRUE,
              value |-> [files     |-> {files.list[i].integer : i \in DOMAIN files.list},
                         directory |-> Path(parsed.value, <<Key("storage-dir")>>).string,
                         rate      |-> Path(parsed.value, <<Key("dload-rate")>>).integer]]
        ELSE Nothing
ConfigurationFrom(text) == Configuration(Parse(text))
=============================================================================
