------------------------------ MODULE Bundles ------------------------------
(***************************************************************************)
(* From a torrent file to a running torrent, to the three files of its     *)
(* bundle and, after a restart, back: the builder threads, the events that *)
(* they post to the window, the preview dialog, the registry and the       *)
(* writes of the DiskIo thread.                                            *)
(*                                                                         *)
(* A bundle is named by its folder.  The state file is the set of          *)
(* available pieces; the other two files are texts.                        *)
(***************************************************************************)
EXTENDS TrackerWire, FileTree, Display

CONSTANTS
    TorrentFiles,   \* the texts of the files that the user may open
    OddFiles,       \* of these, the ones with a key x.utf-8 or keys out of order
    Folders,        \* the names that are drawn for folders: 1, 2, ..
    Directories,    \* what the user may enter as download directory
    Cuts,           \* how much of a text a failing write leaves in the file
    NoFile, Garbage,
    MaxClicks, MaxFailures, MaxRestarts

ASSUME BundlesAssumption ==
    /\ IsFiniteSet(Folders) /\ Folders = 1..Cardinality(Folders)
    /\ {MaxClicks, MaxFailures, MaxRestarts} \subseteq Nat /\ Cuts \subseteq Nat

VARIABLES
    present,    \* the folders that exist
    disk,       \* and the files in them
    queue,      \* writes that the DiskIo thread has to do
    builders,   \* builder threads: the folder and the text or the files they read
    events,     \* BuildCompleteEvents, in the order in which they were posted
    dialogs,    \* open preview dialogs
    torrents,   \* torrents_
    started,    \* torrents that have a command task
    drawn,      \* names drawn since the program was started
    ended,      \* the program came to an untimely end
    clicks, failures, restarts,     \* bounded; opening a file counts as two clicks
    source,     \* history: the text from which the torrent of a folder was built,
    chosen,     \* the configuration in the last complete write,
    ondisk,     \* the verified pieces,
    broken      \* the files that are missing or were written in part, and "read"
                \* once a bundle was built from such files

fileVars == <<present, disk, queue>>
windowVars == <<builders, events, dialogs, clicks, drawn>>
registryVars == <<torrents, started>>
runVars == <<ended, failures, restarts>>
historyVars == <<source, chosen, ondisk, broken>>
vars == <<fileVars, windowVars, registryVars, runVars, historyVars>>

Parts == {"conf", "model", "state"}
Text(t)  == [text |-> t]
State(p) == [pieces |-> p]

Put(f, key, x) == (key :> x) @@ f
Without(f, key) == [k \in DOMAIN f \ {key} |-> f[k]]

Init ==
    /\ present = {} /\ disk = [f \in Folders |-> [part \in Parts |-> NoFile]] /\ queue = <<>>
    /\ builders = {} /\ events = <<>> /\ dialogs = <<>> /\ torrents = <<>> /\ started = {}
    /\ drawn = 0 /\ clicks = 0 /\ ended = FALSE /\ failures = 0 /\ restarts = 0
    /\ source = [f \in Folders |-> <<>>] /\ chosen = [f \in Folders |-> NewConfiguration]
    /\ ondisk = [f \in Folders |-> {}] /\ broken = [f \in Folders |-> Parts]

----------------------------------------------------------------------------
\* Building bundles.

\* Mutant: a name is taken as it is drawn.
AnyName == drawn + 1

\* openLocalFile draws names until there is no such folder; the same names are drawn
\* in every run of the program.
FreshName == Min({f \in Folders : f > drawn /\ f \notin present})

OpenLocalFile(text) ==
    /\ ~ended /\ clicks + 2 <= MaxClicks
    /\ \E f \in Folders : f > drawn /\ f \notin present
    /\ clicks' = clicks + 2
    /\ drawn' = FreshName
    /\ builders' = builders \cup {[folder |-> FreshName, text |-> text]}
    /\ source' = [source EXCEPT ![FreshName] = text]
    /\ UNCHANGED <<fileVars, events, dialogs, registryVars, runVars, chosen, ondisk, broken>>

\* LocalFileBundleBuilder::build.
Built(model) ==
    IF model.found THEN [conf |-> NewConfiguration, model |-> model.value, pieces |-> {}]
    ELSE Nothing
BuildFromFile(b) ==
    /\ ~ended /\ b \in builders /\ "text" \in DOMAIN b
    /\ builders' = builders \ {b}
    /\ \E bundle \in {Built(ModelFrom(b.text))} :
          events' = Append(events, [folder |-> b.folder, restored |-> FALSE,
                                    built |-> bundle # Nothing, bundle |-> bundle])
    /\ UNCHANGED <<fileVars, dialogs, clicks, drawn, registryVars, runVars, historyVars>>

\* BundleUnmarshaller::read appends whole buffers: behind the end of the file is what
\* the buffer held before, perhaps of another file.
Held == {<<>>} \cup
    {disk[at[1]][at[2]].text :
        at \in {x \in present \X {"conf", "model"} : disk[x[1]][x[2]] # NoFile}}
Read(f, part, held) ==
    LET text == disk[f][part].text
    IN  text \o SubSeq(held, Len(text) + 1, Len(held))

\* TorrentState::fromString does not notice that the text is too short; how many
\* pieces it then makes room for on the stack is anybody's guess.
Ends == [ends |-> TRUE]
StatesFrom(file, count) ==
    IF file # Garbage THEN {[found |-> TRUE, value |-> file.pieces]}
    ELSE {[found |-> TRUE, value |-> p] : p \in SUBSET (1..count)} \cup {Nothing, Ends}

Post(f, built, bundle) ==
    events' = Append(events, [folder |-> f, restored |-> TRUE, built |-> built,
                              bundle |-> bundle])

\* The last step of BundleUnmarshaller::build.
PostBundle(f, conf, model) ==
    IF ~conf.found THEN Post(f, FALSE, Nothing) /\ UNCHANGED ended
    ELSE IF ~model.found THEN Post(f, FALSE, Nothing) /\ UNCHANGED ended
    ELSE \E state \in StatesFrom(disk[f]["state"], PieceCount(model.value)) :
            IF state = Ends THEN ended' = TRUE /\ UNCHANGED events
            ELSE /\ IF state.found
                    THEN Post(f, TRUE, [conf |-> conf.value, model |-> model.value,
                                        pieces |-> state.value])
                    ELSE Post(f, FALSE, Nothing)
                 /\ UNCHANGED ended

\* BundleUnmarshaller::build.
Unmarshal(b, held) ==
    LET f     == b.folder
        whole == \A part \in Parts : disk[f][part] # NoFile
    IN  /\ ~ended /\ b \in builders /\ "text" \notin DOMAIN b
        /\ builders' = builders \ {b}
        /\ broken' = IF broken[f] = {} THEN broken ELSE [broken EXCEPT ![f] = @ \cup {"read"}]
        /\ IF ~whole THEN Post(f, FALSE, Nothing) /\ UNCHANGED ended
           ELSE PostBundle(f, ConfigurationFrom(Read(f, "conf", held)),
                              ModelFrom(Read(f, "model", held)))
        /\ UNCHANGED <<fileVars, dialogs, clicks, drawn, registryVars, failures, restarts,
                       source, chosen, ondisk>>

----------------------------------------------------------------------------
\* The window.

\* CommandTask::Private makes the folder and has the three files written.
Save(f, bundle) ==
    /\ present' = present \cup {f}
    /\ queue' = queue \o <<[folder |-> f, part |-> "conf", conf |-> bundle.conf],
                           [folder |-> f, part |-> "model", model |-> bundle.model],
                           [folder |-> f, part |-> "state", pieces |-> bundle.pieces]>>
    /\ started' = started \cup {f}

\* Mutant: only the hashes of the pieces are compared.
SamePieces(bundle) ==
    \E g \in DOMAIN torrents :
        Path(torrents[g].model, Info("pieces")) = Path(bundle.model, Info("pieces"))

Known(bundle) ==
    \E g \in DOMAIN torrents : InfoHash(torrents[g].model) = InfoHash(bundle.model)

\* handleBundleConfiguredEvent: createTorrent keeps one torrent of a hash and makes its
\* trackers, which may throw; the widget asks for the first file, and the torrent is
\* started if the user wanted it (a restored one always is) and its acceptor can be.
HandleBundleConfigured(f, bundle, starts) ==
    IF Known(bundle) THEN UNCHANGED <<present, queue, registryVars, ended>>
    ELSE IF TrackersThrow(bundle.model)
    THEN ended' = TRUE /\ UNCHANGED <<present, queue, registryVars>>
    ELSE /\ torrents' = Put(torrents, f, bundle)
         /\ IF FileList(bundle.model) = <<>> THEN ended' = TRUE ELSE UNCHANGED ended
         /\ IF starts /\ ~ended' THEN Save(f, bundle)
            ELSE UNCHANGED <<present, queue, started>>

\* PreviewTorrentDialog: its constructor wants a creation date.
OpenDialog(f, bundle) ==
    IF Exists(bundle.model, <<Key("creation date")>>)
    THEN /\ dialogs' = Put(dialogs, f,
              [bundle |-> bundle, again |-> FALSE,
               view |-> [ticks |-> AllChecked(FileList(bundle.model)),
                         size  |-> SizeOf(FileList(bundle.model),
                                          Leaves(Tree(FileList(bundle.model))))]])
         /\ UNCHANGED ended
    ELSE ended' = TRUE /\ UNCHANGED dialogs

\* TorrentView::event.
HandleEvent(starts) ==
    LET e == Head(events)
    IN  /\ ~ended /\ events # <<>>
        /\ events' = Tail(events)
        /\ IF ~e.built THEN UNCHANGED <<dialogs, present, queue, registryVars, ended>>
           ELSE IF e.restored
           THEN HandleBundleConfigured(e.folder, e.bundle, starts) /\ UNCHANGED dialogs
           ELSE OpenDialog(e.folder, e.bundle) /\ UNCHANGED <<present, queue, registryVars>>
        /\ UNCHANGED <<disk, builders, clicks, drawn, failures, restarts, historyVars>>

\* The view and what the history keeps of it: whether a file got the tick, or lost
\* it, that it had, or had not.
Tick(f, view, nodes, state) ==
    LET d == dialogs[f]
    IN  /\ ~ended /\ clicks < MaxClicks
        /\ clicks' = clicks + 1
        /\ dialogs' = [dialogs EXCEPT ![f].view = view,
              ![f].again = (d.again \/ \E n \in Leaves(nodes) : d.view.ticks[n] = state)]

\* A click on an item: what is not ticked, or ticked in part, gets the tick.
Click(f, node) ==
    LET d     == dialogs[f]
        files == FileList(d.bundle.model)
        state == IF d.view.ticks[node] = "checked" THEN "unchecked" ELSE "checked"
    IN  /\ Tick(f, SetData(files, d.view, node, state), Below(Tree(files), node) \cup {node}, state)
        /\ UNCHANGED <<fileVars, builders, events, drawn, registryVars, runVars, historyVars>>

\* Without files the root has no children and is taken for a file, without a size.
ClickAll(f, state) ==
    LET files == FileList(dialogs[f].bundle.model)
    IN  /\ Tick(f, SetAll(files, dialogs[f].view, state), Tree(files), state)
        /\ ended' = (files = <<>>)
        /\ UNCHANGED <<fileVars, builders, events, drawn, registryVars, failures, restarts, historyVars>>

\* handleAcceptDownloadEvent.
Accept(f, directory, starts) ==
    LET d      == dialogs[f]
        bundle == [d.bundle EXCEPT !.conf.directory = directory,
                      !.conf.files = EnumUnmaskedFiles(FileList(d.bundle.model), d.view.ticks)]
    IN  /\ ~ended
        /\ dialogs' = Without(dialogs, f)
        /\ HandleBundleConfigured(f, bundle, starts)
        /\ UNCHANGED <<disk, builders, events, clicks, drawn, failures, restarts, historyVars>>

\* handleCancelDownloadEvent.
Cancel(f) ==
    /\ ~ended
    /\ dialogs' = Without(dialogs, f)
    /\ UNCHANGED <<fileVars, builders, events, clicks, drawn, registryVars, runVars, historyVars>>

----------------------------------------------------------------------------
\* A torrent that runs, and the DiskIo thread.

\* A verified piece: markPieceAsAvailable, and the state is saved.
CompletePiece(f, i) ==
    LET pieces == torrents[f].pieces \cup {i}
    IN  /\ ~ended /\ f \in started /\ i \in 1..PieceCount(torrents[f].model) \ torrents[f].pieces
        /\ torrents' = [torrents EXCEPT ![f].pieces = pieces]
        /\ queue' = Append(queue, [folder |-> f, part |-> "state", pieces |-> pieces])
        /\ ondisk' = [ondisk EXCEPT ![f] = @ \cup {i}]
        /\ UNCHANGED <<present, disk, windowVars, started, runVars, source, chosen, broken>>

\* A text is written over the old one, which is not truncated.
Written(old, new) ==
    IF old = NoFile THEN new
    ELSE Text(new.text \o SubSeq(old.text, Len(new.text) + 1, Len(old.text)))

Contents(w) ==
    CASE w.part = "conf"  -> Text(ConfigurationText(w.conf))
      [] w.part = "model" -> Text(ModelText(w.model))
      [] w.part = "state" -> State(w.pieces)

\* satisfyRequest(WriteDataRequest).
WriteDone ==
    LET w == Head(queue)
    IN  /\ ~ended /\ queue # <<>>
        /\ queue' = Tail(queue)
        /\ disk' = [disk EXCEPT ![w.folder][w.part] =
                      IF w.part = "state" THEN Contents(w) ELSE Written(@, Contents(w))]
        /\ broken' = [broken EXCEPT ![w.folder] = @ \ {w.part}]
        /\ chosen' = IF w.part = "conf" THEN [chosen EXCEPT ![w.folder] = w.conf] ELSE chosen
        /\ UNCHANGED <<present, windowVars, registryVars, runVars, source, ondisk>>

\* The file was not opened or written in part; handleBundleSerializationFailure only
\* logs it.  All states of a torrent have one size.
WriteFails(cut) ==
    LET w   == Head(queue)
        old == disk[w.folder][w.part]
        new == IF w.part # "state" THEN Written(old, Text(SubSeq(Contents(w).text, 1, cut)))
               ELSE IF old = NoFile THEN Garbage ELSE old
    IN  /\ ~ended /\ queue # <<>> /\ failures < MaxFailures
        /\ failures' = failures + 1
        /\ queue' = Tail(queue)
        /\ \/ UNCHANGED <<disk, broken>>
           \/ /\ disk' = [disk EXCEPT ![w.folder][w.part] = new]
              /\ broken' = IF new = old THEN broken
                           ELSE [broken EXCEPT ![w.folder] = @ \cup {w.part}]
        /\ UNCHANGED <<present, windowVars, registryVars, ended, restarts, source, chosen, ondisk>>

----------------------------------------------------------------------------
\* The program ends, in whatever way, and is started again: restoreTorrentList.
Restart ==
    /\ restarts < MaxRestarts
    /\ restarts' = restarts + 1
    /\ ended' = FALSE
    /\ builders' = {[folder |-> f] : f \in present}
    /\ queue' = <<>> /\ events' = <<>> /\ dialogs' = <<>>
    /\ torrents' = <<>> /\ started' = {} /\ drawn' = 0
    /\ UNCHANGED <<present, disk, clicks, failures, historyVars>>

Next ==
    \/ \E text \in TorrentFiles : OpenLocalFile(text)
    \/ \E b \in builders : BuildFromFile(b) \/ \E held \in Held : Unmarshal(b, held)
    \/ \E starts \in BOOLEAN : HandleEvent(starts)
    \/ \E f \in DOMAIN dialogs :
         \/ \E node \in DOMAIN dialogs[f].view.ticks : Click(f, node)
         \/ \E state \in {"checked", "unchecked"} : ClickAll(f, state)
         \/ \E directory \in Directories, starts \in BOOLEAN :
               Accept(f, directory, starts)
         \/ Cancel(f)
    \/ \E f \in DOMAIN torrents :
         \E i \in 1..PieceCount(torrents[f].model) : CompletePiece(f, i)
    \/ WriteDone \/ \E cut \in Cuts : WriteFails(cut)
    \/ Restart
Spec == Init /\ [][Next]_vars

----------------------------------------------------------------------------
\* Properties.

OnDisk(f) == f \in present /\ broken[f] = {}
Fatal(text) ==
    LET model == ModelFrom(text)
    IN  model.found /\ (\/ ~Exists(model.value, <<Key("creation date")>>)
                        \/ FileList(model.value) = <<>>
                        \/ TrackersThrow(model.value))

HashOf == [text \in TorrentFiles |->
              LET model == ModelFrom(text)
              IN  IF model.found THEN InfoHash(model.value) ELSE <<>>]

\* The info dictionary as it stands in the torrent file.
TrueHash ==
    [text \in TorrentFiles |->
        LET first == 3 + CHOOSE n \in DOMAIN text : SubSeq(text, n, n + 2) = Word(Key("info"))
        IN  SubSeq(text, first, ObjectAt(text, first).next - 1)]

\* Types; a folder's bundle is in one place at a time: with its builder, in an event,
\* in its dialog or in the registry (TorrentView and GlobalTorrentRegistry).
TypeOK ==
    LET At(f) == << \E b \in builders : b.folder = f,
                    \E n \in DOMAIN events : events[n].folder = f,
                    f \in DOMAIN dialogs, f \in DOMAIN torrents >>
    IN  /\ present \subseteq Folders /\ started \subseteq DOMAIN torrents \cap present
        /\ DOMAIN torrents \cup DOMAIN dialogs \subseteq Folders
        /\ \A w \in ToSet(queue) : w.folder \in started /\ w.part \in Parts
        /\ \A f \in Folders : Cardinality({n \in 1..4 : At(f)[n]}) <= 1
        /\ \A m, n \in DOMAIN events : events[m].folder = events[n].folder => m = n
        /\ {drawn} \subseteq 0..Cardinality(Folders) /\ ended \in BOOLEAN

\* What a builder makes of a torrent file has the hash that the file says, unless
\* RelinkAzureusKeys changed the info dictionary or its keys were not in order; and
\* what BundleUnmarshaller brings back is the torrent, with the settings of the last
\* complete write and no piece that is not on the disk, unless a write was cut short.
BundlesTrue ==
    /\ \A e \in ToSet(events) : e.built =>
          IF e.restored
          THEN broken[e.folder] = {} =>
                  /\ e.bundle.conf = chosen[e.folder]
                  /\ InfoHash(e.bundle.model) = HashOf[source[e.folder]]
                  /\ e.bundle.pieces \subseteq ondisk[e.folder]
          ELSE \/ InfoHash(e.bundle.model) = TrueHash[source[e.folder]]
               \/ source[e.folder] \in OddFiles
    /\ \A f \in DOMAIN torrents : broken[f] = {} => torrents[f].pieces \subseteq ondisk[f]

\* Whatever was written completely is back once its builder and its event are through
\* (restoreTorrentList), itself or another one with its hash.  Lost is what has an
\* empty string in its settings, which is written and cannot be read; and the program
\* only dies of a torrent without a date, without files or with an invalid tracker, or
\* of half a state.
NothingLost ==
    /\ ~ended => \A f \in present :
          \/ broken[f] # {} \/ chosen[f].directory = <<>>
          \/ \E b \in builders : b.folder = f
          \/ \E e \in ToSet(events) : e.folder = f
          \/ \E g \in DOMAIN torrents : InfoHash(torrents[g].model) = HashOf[source[f]]
    /\ ended => \/ \E f \in Folders : source[f] # <<>> /\ Fatal(source[f])
                \/ \E f \in present : "state" \in broken[f]

\* The files that the user sees ticked are the ones that are downloaded: every file can
\* be ticked, a folder shows what is ticked in it, and the size is that of the ticked
\* files, unless a tick was given to a file that had it (TorrentFilesystemModel).
SelectionTrue ==
    \A f \in DOMAIN dialogs :
        LET view  == dialogs[f].view
            files == FileList(dialogs[f].bundle.model)
            tree  == Tree(files)
        IN  /\ DOMAIN view.ticks = tree
            /\ EnumUnmaskedFiles(files, AllChecked(files)) =
                  {i \in DOMAIN files : \A j \in 1..i-1 : files[j].path # files[i].path}
            /\ \A node \in tree : node.folder =>
                  /\ Leaves(Below(tree, node)) # {}
                  /\ view.ticks[node] =
                        Combined({view.ticks[n] : n \in Leaves(Below(tree, node))})
            /\ \/ view.size = SizeOf(files, {n \in Leaves(tree) : view.ticks[n] = "checked"})
               \/ dialogs[f].again

\* What the window shows is so: the selection of the dialog, and the numbers of its
\* labels and of a running torrent (TorrentFilesystemModel, PreviewTorrentDialog,
\* TorrentStateWidget, PrettyPrint).
ShownRight == SelectionTrue /\ (clicks = 0 => NumbersRight)

\* A configuration is read back from its text, also when the end of a longer one is
\* left behind it, which is how it stands in the file of a bundle (TorrentConfiguration,
\* SerializationVisitor and Reader), unless it has an empty string; nothing is read from
\* the beginning of a text; a number that does not fit is never read as another one
\* (IntegerWorker); and a string is read up to the longest that is allowed, unless it is
\* the empty one (StringWorker).
Configurations == [files : SUBSET (1..2), directory : Directories, rate : {-1, 60}]
TextsRight ==
    /\ \A conf, before \in Configurations :
          LET text  == ConfigurationText(conf)
              after == Written(Text(ConfigurationText(before)), Text(text)).text
          IN  IF conf.directory = <<>> THEN ConfigurationFrom(after) = Nothing
              ELSE /\ ConfigurationFrom(after) = [found |-> TRUE, value |-> conf]
                   /\ \A n \in 0..Len(text)-1 : ~Parse(SubSeq(text, 1, n)).found
    /\ \A n \in 0..10^(MaxDigits + 1) :
          LET number == IntegerAt(<<"i">> \o Decimal(n) \o <<"e">>, 1)
          IN  IF n < 2^(Width - 1) THEN number.found /\ number.value.integer = n
              ELSE ~number.found
    /\ \A n \in 0..MaxString+1 :
          LET string == [i \in 1..n |-> "a"]
          IN  Parse(Word(string)) = IF n \in 1..MaxString THEN Found(String(string), Len(Word(string)) + 1)
                                    ELSE Nothing
TextsRead ==
    /\ TextsRight
    /\ \A f \in Folders : "conf" \notin broken[f] =>
          IsPrefix(ConfigurationText(chosen[f]), disk[f]["conf"].text)

\* Requests, answers and the progress that is told are understood on both sides, also
\* when the connection ends anywhere (TrackerWire); and a torrent that was taken has a
\* tracker unless its list has none that can be asked (GlobalTorrentRegistry).
AnnouncesUnderstood ==
    /\ clicks = 0 => WordsUnderstood
    /\ \A f \in DOMAIN torrents :
          ~TrackersThrow(torrents[f].model) /\ UNION {ToSet(Tiers(torrents[f].model)[i]) :
              i \in DOMAIN Tiers(torrents[f].model)} # {}
=============================================================================
