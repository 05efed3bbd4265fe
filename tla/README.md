# A TLA+ development for MuLi

MuLi (package `mulifs`) is a FUSE file system written in Go that shows a folder
of mp3 files as a tree `artist/album/song`.  A BoltDB database keeps the tree;
the music files keep the tags.  Making, renaming and removing directories and
songs in the mounted tree changes the database, moves the files and rewrites
the tags.  Files put in `drop` are filed by their tags three seconds after they
were last touched.  Playlists are directories too, each with an m3u file beside
the music.

The files here specify what those operations do, step by step, with the places
where two of them can interleave; check it with TLC on small instances; and
prove part of it with TLAPS for every instance.  `PROJECT.json` maps every
definition to the lines it models, and lists the runs, the hazards they are
aimed at and the theorems.

## 1. The system

### Components

| Component | State it keeps | Operations |
|---|---|---|
| `store/objectmanager.go` | the `Artists` bucket: artists with their `ArtistAlbums`, albums, songs with `SongFullPath` and `Playlists` | create and delete an artist, an album, a song; look them up; list them; `StoreNewSong` for the scan |
| `store/moveManager.go` | (the same database, the files, the directories) | `MoveArtist`, `MoveAlbum`, `MoveSongs` |
| `store/dropManager.go` | (the same) | `HandleDrop`: file a dropped song by its tags |
| `store/playlistManager.go` | the `Playlists` bucket: playlists with their entries | create, rename and delete a playlist; add, remove, rename an entry; rewrite the m3u file |
| `playlistmgr` | the m3u files | read, write and delete one |
| `musicmgr` | the tags of the mp3 files | `GetMp3Tags`, `SetMp3Tags` |
| `dispatcher.go` | `fChannel` (room for 10 messages), `fileItems` | `PushFileItem`, `addFile`, `cleanLists`, the `select` loop |
| `dir.go`, `file.go`, `fs.go` | the names in each `Dir` and `File` node; open file handles | FUSE requests |
| `tools` | none | scan the music folder and the playlists at start |
| `main.go` | options | open the database, scan, start the dispatcher, serve |

### How they interact

* bazil/fuse runs every FUSE request in a goroutine of its own.  The dispatcher
  is one more goroutine, and the handlers it calls after three quiet seconds
  (`DelayedHandleDrop`, `DelayedHandlePlaylistSong`) run inside it.
* There is no lock in the program.  Each exported function of `store` opens the
  database file, runs one bolt transaction and closes the file.  `bolt.Open`
  takes an exclusive `flock` and is given no timeout, so this is the only mutual
  exclusion between handlers, and a handler that opens the file while it has
  the file open waits for itself.
* An operation such as `MoveSongs` is a row of such sessions with renames and
  tag writes between them.  Anything may happen between two sessions.
* The kernel keeps some requests apart: it holds the directories that a request
  changes until the handler has answered.  It knows nothing of the dispatcher.
* `file.go` tells the dispatcher about dropped files through `fChannel`.  The
  send blocks when the channel is full.

### What is hard about it

Interleavings of the steps of two operations; the database file left open over
a loop; sequences of requests where an error inside a loop is dropped and the
loop's cleanup runs all the same; names before and after `GetCompatibleString`;
the two-way link between songs and playlists; message order, time stamps and
the timer of the dispatcher.  `hazards` in `PROJECT.json` gives each at its line.

### What makes each component correct

* Store and moves: no two songs share a file; every song has its file and every
  file its song; a file's tags are its place in the tree; an artist's list of
  albums is complete; what is deleted is gone, and nothing else is; every
  request returns.
* Playlists: a song's link to a playlist is answered by an entry with the
  song's file; the m3u file of a playlist has all of its songs, whichever
  handlers change the playlist at once; a file copied into a playlist does not
  stay there.
* Dispatcher: one item per file; a closed file is handled once and at last; no
  item is skipped; a client that pushes is not held for ever.
* Scan and start-up: after a start every file is found under its tags and the
  m3u files agree with the database, however the last run ended; a second scan
  of an unchanged folder changes nothing.

## 2. The modules

| Module | What it is |
|---|---|
| `Store` | The database as a record, each bolt transaction as an operator from a database to a database.  No state. |
| `Library` | The handlers as processes over the database, the files, the directories and the m3u files. |
| `MCLibrary` | Instances of `Library`: names, scanned libraries, sets of requests. |
| `Dispatcher` | `dispatcher.go` and the part of `file.go` and `dir.go` that feeds it. |
| `MCDispatcher` | Instances of `Dispatcher`. |
| `Shelf` | The abstract specification of the tree: for each request of one client, its one effect. |
| `OneClient` | `Sequential`: what a single client must not ask for the library to stay in order; the refinement mapping from `Library` to `Shelf`. |
| `MCShelf` | An instance of `OneClient`. |
| `Playlists` | The handlers of the `playlists` directory and `DelayedHandlePlaylistSong`, over `Library`. |
| `MCPlaylists` | Instances of `Playlists`. |
| `Restart` | MuLi ending between any two steps, or in the writing of a playlist file, and starting again: `main.go` and the scans, over `Playlists`. |
| `MCRestart` | Instances of `Restart`. |
| `StoreProofs` | What each transaction keeps: the type of the database, the paths of its songs. |
| `LibraryProofs` | Theorems of `Library`: types, files. |
| `LibraryTreeProofs` | Theorems of `Library`: the album lists of artists, the links to playlists. |
| `SequentialProofs` | Theorems of `Library` with one client: records, files and tags. |
| `ShelfProofs` | `Library` with one client implements `Shelf`. |
| `PlaylistsProofs` | Theorems of `Playlists`. |
| `RestartProofs` | Theorems of `Restart`. |
| `DispatcherProofs` | Theorems of `Dispatcher`. |

`Library` extends `Store`, `Playlists` extends `Library` and `Restart` extends
`Playlists`; each keeps the actions of the one below and composes its own with
them.  `Dispatcher` stands alone: what it knows of a handler is that it runs in
the dispatcher's goroutine and moves the file, removes it, or gives up.

### Library and the code

`pc[p]` is the step a process takes next, named after the function that takes
it; `loc[p]` holds the arguments and locals that are still to be read.  Two
kinds of step exist.  A *session* is `bolt.Open`, one transaction, `Close`: one
action, enabled when `lock = Free`.  A *system call* (rename, mkdir, create,
remove, tag write) is an action without lock.  The cut is at each point where
another process can see or change what this one uses; the code between two
cuts works on locals.

A session that goes on after its transaction keeps `lock = p`.  That happens in
two places: `Victims`, the loop of `DeleteArtist` and `DeleteAlbum` that removes
the files, and `Nested`, the call of `DeletePlaylistSong` while the file is open.
No action leaves `Nested`, as in the code.

| Request | Steps |
|---|---|
| mkdir | `CreateArtist` or `CreateAlbum`, `MkdirNew` |
| create | `CreateSong`, `CreateFile` |
| release of a song | `ReleaseSong`, `ReleaseTags` |
| remove a song | `GetFilePath`, `DeleteSong`, `RemoveFile` |
| remove a directory | `DeleteArtist` or `DeleteAlbum`, then `Victims` for each file |
| rename a song | `MoveSongs`, `Unlist` per playlist, `RenameFile`, `DeleteOld`, `SetMp3Tags`, `CreateNew`, then `AddPath`, `AddEntry`, `Regenerate` per playlist |
| rename an album | `MoveAlbum`, `NewAlbum`, the steps of a song for each song, `EndAlbum` |
| rename an artist | `MoveArtist`, `NewArtist`, the steps of an album for each album, `EndArtist` |
| a drop | `GetMp3Tags`, `DropArtist`, `DropAlbum`, `DropFileInto`, `DropSong` |

`Start` is the kernel handing over a request.  `Resolves`, `Walked`,
`KernelLocks` and `Waits` model the kernel (external to the repository): a
request's source exists and a new name does not when the request starts, two
requests that change the same directory wait for each other, and a directory
still being made cannot be walked through.

Abstractions:

* Names are model values, `Compat` is `GetCompatibleString` on them.  All that is
  assumed of it is that it is idempotent.  `Mp3Name` are the song names asked
  for with the extension; the keys of the database are written without it.
* A file's content is its tags.  `Untagged` is a new file.  A tag write keeps
  whether the title was written with `.mp3` (it is, by `MoveSongs`).
* The display names in the descriptions are left out: no operation reads them.
  `ArtistAlbums` is kept, because `MoveArtist` follows it.
* Requests that are refused by the depth of the nodes alone are left out.
* `GetMp3Tags` fails only on a file that is gone.  A file has all three tags or
  none; `Unknown` and `BaseName` are the defaults that it writes into the file.
  `Suffixed` is the name made of a title that ends in `.mp3`.
* System calls fail for the reasons the program can cause: no such file, no such
  directory.  Full disks and permissions are left out.
* The flock and the kernel's locks are by name.  A node that outlives the rename
  of its directory (stale nodes) is not modelled.

### Dispatcher and the code

`call` holds the request of each client that pushes: `Attr` (function `nil`),
`Open` (`DelayedVoid`, then the open itself), `Release` (the delayed handler).
The time stamp is taken when the call is made and the message is sent when there
is room, two actions, so that messages can arrive in another order than their
stamps.  `Receive` is `addFile`.  `Timer`, `Look`, `Run`, `Cleaned` are
`cleanLists`, one loop turn per step, because clients push meanwhile.  Time is
`Tick`, and every time stamp is kept as an age that stops growing past the
timeout.  `Release` and `Run` keep `owed`, releases not yet handled, an auxiliary
count for a property.

Not modelled: a client cannot remove or rename a file in `drop` (the code
refuses both).

### Shelf and the refinement

`Shelf` has artists, albums, songs and the request in progress, and two steps:
`Ask`, which a client does, and `Answer`, which has the whole effect.  The sole
trace of the files is the set of strays, songs whose file is not in the place of
their names: to rename one has no effect (`dir.go:550` builds the path from the
names), to rename its artist or album brings it in place.

`OneClient` adds `between`, a history variable with what the tree held when no
request was in progress, and maps the variables of `Shelf` to it, because the
effect is promised for when the handler returns.  `ImplementsShelf` is the
specification of `Shelf` under this mapping.  The refinement is for one client:
the kernel keeps two requests apart only when they change the same directory, and
with two clients or a drop songs are lost (hazards at `moveManager.go:420` and
`dir.go:530`).

### Playlists and the code

A handler of `Playlists` has a frame `call[p]` of its own, below the one of
`Library`: its sessions run while `pc[p]` is `"idle"`, and to call `MoveSongs` or
`HandleDrop` it puts the process at the first step of that function.  `Resume`
goes on when the function returns, with or without an error (`Succeeds`).

| Request | Steps |
|---|---|
| mkdir in `playlists` | `CreatePlaylist`, `RegenerateList` |
| remove a playlist | `DeletePlaylist` |
| rename a playlist | `RenamePlaylist`, `RegenerateList` |
| rename a song in a playlist | `getPlaylistFile`, the steps of `MoveSongs`, `RegenerateList` |
| remove a song from a playlist | refused (`dir.go:510`), no step |
| copy a file into a playlist | `CreateInList`, `CloseInList`; later `HandleSong`, `FindSong`, then the steps of `HandleDrop` and `FindFiled` if the song is not there, `AddSongPath`, `AddSongEntry`, `RemoveDropped`, `RegenerateList` |

`handle` says which of the copied files are open and which wait.  The dispatcher
takes up a waiting file some time after it was closed, one at a time; that it
does so once, and when, is in `Dispatcher`.  `DeletePlaylistTx` is a set of
outcomes: the loop returns at the first song it can open, and which one is first
is left open.

### Restart and the code

`start` is where `main.go` is.  `Stop` ends the process, in a handler or in the
scan: processes, frames and open files are gone; the music files, the m3u files and
what was committed stay.  Nearly every step of the other modules is one transaction
or one system call, so that `Stop` between two steps is an end between any two of
them.  Three sessions write a playlist file as well as the database, or write it in
many calls, and `Cut` is an end in the middle of those: `DeletePlaylist` after the
commit, `RenamePlaylist` before it, and `RegeneratePlaylistFile` between any two of
its `WriteString` calls (`HalfWritten`): no file, one without its first line, one
with some of the lines, or one whose last line is cut.  `torn` are the files
without a first line, `ragged` those with a `#MULI` line of one or two parts; a line
cut later than that has three parts and is as good as whole.  BoltDB's own recovery
is taken for granted: a transaction is there or not.

| Code | Steps |
|---|---|
| `scanner.go`, one file | `Visit` (the tags that are missing), `StoreNewSong` |
| `ScanPlaylistFolder` | `ScanPlaylistFolder` (the list of files), then one of the next four for each file |
| `CheckPlaylistFile` refuses | `LeaveAlone` |
| `ProcessPlaylist` panics | `ProcessPlaylistPanics`: `main` ends and is started again |
| `visitPlaylist` | `visitPlaylist` (up to `CreatePlaylist`), `RemoveScanned`, `RegenerateScanned` |
| the end of `main.go` | `Mount` |

`filepath.Walk` comes to the files in the order of their paths: `Walk` gives each
path a place, any order will do, and `IsNext` is the file that comes next of those
still to visit.  Playlist files are taken in any order.  `kept` is a history
variable, the library as the last scan left it until a handler changes it.

## 3. The runs

| Run | Question | States | Result |
|---|---|---|---|
| `library_sequential` | Do records, files and tags agree after any sequence of requests of one client, and has each request the effect that `Shelf` promises? | 418 000 | holds |
| `library_concurrent` | What holds when two requests and a drop interleave? | 97 000 | holds |
| `library_playlists` | Is every link to a playlist answered, whatever moves, drops and blocked handlers do? | 6 000 | holds |
| `playlists` | What becomes of links, m3u files and copied files when playlists are made, renamed, merged, removed and filled at once? | 317 000 | holds |
| `restart` | What is there when MuLi has ended anywhere and has mounted again? | 341 000 | holds |
| `dispatcher` | Is every closed file handled, once, and no client held? | 127 000 | holds |
| `nested_open` | Does every request return? | - | violated |
| `raw_name` | Does a rename keep the songs? | - | violated |
| `rename_playlist` | Do all links follow a playlist's rename? | - | violated |
| `restart_renamed` | Is a renamed song found again, once? | - | violated |
| `restart_panic` | Does MuLi mount again, whatever it was writing when it ended? | - | violated |
| `dispatcher_starved` | Is a closed file handled while another is looked at? | - | violated |

Invariants of one client (`Inventory`, `TagsFollow`) and `PlaylistFilesComplete`
speak of the states in which no handler is at work, those of `Restart` of the
moment at which MuLi has mounted.  `LinksKept` speaks of steps, the others of every
state.  `TagsFollow` compares titles without their extension: a rename writes the
title with `.mp3`, a flag of its own in the model, and `restart_renamed` shows what
comes of it.

What the larger runs show beyond their question:

* `PlaylistFilesComplete`.  No handler writes the m3u file in the session that
  changes the playlist, and handlers overtake each other, yet a file never ends up
  short of a song, because each handler writes what the database has at the time.
  It can have a song too many: `MoveSongs` that fails after `Unlist` writes nothing.
* `LinksKept`.  A link that is answered by an entry stays so over every step of every
  handler, but for losses that the code brings about by itself and that the property
  names: `MoveSongs` takes the song off before it moves it (`TakenOff`); another song
  of the title takes the entry over (`TakenOver`, `playlistManager.go:302` and 679);
  a playlist is renamed to its own name or a song is on it twice (`LeftBehind`, 686
  and 662).  The run has steps of each kind: without any one of the exceptions TLC
  finds the property violated.
* `PlaylistFilesRestored` and `FilesFound`.  The scan repairs what an end in the
  middle of a handler leaves half done, except for records whose file is gone,
  for a playlist file without its first line, and for one cut inside a line, which
  keeps MuLi from mounting.  It does so by ignoring what
  the file says (`playlistFiles.go:85`) and writing what the database has.

### Bounds

* `library_sequential`: three artist names, two of which are album names as well,
  so that self-titled albums exist (`DeleteAlbum` and moves inside one artist
  treat them differently); two song names; a scanned song that does not lie where
  MuLi would put it; only songs of one of the names are opened and closed; five
  requests, enough to make, fill, move twice and remove.
  Directories are renamed onto free names (`ReplaceDirs = FALSE`).
* `library_concurrent`: two FUSE requests, because a third adds no new pair of
  operations, and the dispatcher, which the kernel does not hold back; three
  requests in a behaviour, so that all three can be in progress at once.  The
  requests cover every operation on one artist and a second one.
* `library_playlists`: one playlist and four requests.
* `dispatcher`: two files, two clients, three requests, `Capacity = 1`,
  `Timeout = 1`.  A full channel is one message away and a sender waits behind
  another; the size of the channel plays no other part.
* `playlists`: two albums, two playlists with a song each, two further names of
  playlists, one that becomes the name of the second and one of which nothing is
  left; two clients, one file to copy, which may be the song of either playlist or one of
  the first song's title by an artist that is not there; four requests, so that a playlist can be merged,
  made again and removed while the file is filed.
* `restart`: the same library, with one song in a file MuLi has not placed, and
  renames that write a title ending in `.mp3`; three requests and `MaxStops = 2`,
  so that MuLi can end in a handler and once more in the scan that follows, or be
  started twice in a row.
* `restart_panic`: the same library, one rename of a playlist onto the other, one stop.
* `MaxRequests` bounds `Start`, `StartList`, `CreateInList`, `Create`, `Attr` and
  `Open`, `MaxStops` bounds `Stop`; nothing else is bounded.

Deadlock is not checked in the runs with songs on playlists, since the system
does stop (run `nested_open`).

Requests that are left out of a passing run because the property is known not to
hold for them, each one a hazard at its line in `PROJECT.json`:

* removal of an album that is not self-titled, which does nothing or removes the files
  of another album (`objectmanager.go:812`);
* a rename of a song onto the scanned song, whose file would be orphaned;
* names that `GetCompatibleString` changes (run `raw_name`);
* in the concurrent run, a rename of an artist onto the artist of the file in
  `drop`: when the drop has made that artist first, `copy()` writes over its
  album list.
* in the runs with playlists, a listed song that does not lie where MuLi put it:
  it is taken off its playlists before its rename fails;
* in `library_playlists`, of which `LinksHold` is claimed, two songs of one title on
  a playlist.  Nor is `LinksHold` claimed of `playlists`: there a song can be on both
  playlists when they are merged, and a rename of the result leaves a link to a
  playlist that is gone (run `rename_playlist`).  `playlists` has these cases, and
  the rename of a playlist to its own name, and checks `LinksKept`.

### Fairness

* `Library`: weak fairness of `Step(p)` for each process.  Go runs every goroutine
  that is not blocked, and `flock` is granted to a process that waits for it when
  nobody else wants it.  No fairness of `Start`: no request need come.
* `Playlists`: weak fairness of the steps of each process, as in `Library`; strong
  fairness of `HandleSong`, because the dispatcher is busy with other files now
  and then and `Dispatcher` shows that a file it was told of is taken up; weak
  fairness of `CloseInList`: a client closes what it has open.  `DropsAreCleared`
  needs no more, and excepts the states in which a handler waits for itself.
* `Restart`: none for the invariants; weak fairness of `StartStep` for `MountsAgain`,
  because nothing that `main.go` does before it mounts waits for anyone else.
* `Dispatcher`: weak fairness of `Tick`, `Look`, `Run`, `Cleaned` and `OpenFile`,
  which nothing disables once enabled.  Strong fairness of `Receive` and `Timer`:
  `select` picks at random among the ready cases.  Strong fairness of `Send`: Go
  queues the goroutines that wait to send, first come first served.  Weak
  fairness of the release of a file: a client closes what it has open.  No
  fairness of `Create`, `Attr`, `Open`.

### What disagrees with the documents

1. `DeleteSong` never returns for a song on a playlist: it calls
   `DeletePlaylistSong` with the database open (`objectmanager.go:898`;
   `nested_open`).  `DeleteArtist` and `DeleteAlbum` do the same.
2. A rename of an artist to a name that `GetCompatibleString` changes deletes the
   artist's songs from the database and moves no file (`moveManager.go:428`;
   `raw_name`).
3. Looking at a dropped file every three seconds keeps all others from being
   handled (`dispatcher.go:102`; `dispatcher_starved`).
4. A song that is on a playlist and on the one it is merged with keeps a link to
   a name that is gone after the next rename (`playlistManager.go:662`;
   `rename_playlist`).
5. A song that was renamed is in the library twice after the next start, because
   the rename wrote its title with the extension (`moveManager.go:83`;
   `restart_renamed`).
6. When MuLi ends inside a `#MULI` line that it writes, every later start panics on
   that line and nothing is mounted (`playlistFiles.go:87`; `restart_panic`).

Seen in the model and not given a run of their own: `DeleteAlbum` looks for the
album in the bucket named like the artist, so it does nothing, or removes the files
of the self-titled album (`objectmanager.go:812`, against the comment at 794-796);
`DeletePlaylist` leaves the playlist and all links but one (`playlistManager.go:441`,
against the comment at 357-359); and a playlist that was deleted just before MuLi
ended comes back empty (`playlistManager.go:448`).

## 4. The proofs

| Theorem | Module | For every value of the constants |
|---|---|---|
| `TypeCorrect` | `LibraryProofs` | `Spec => []TypeOK` |
| `DistinctFilesHold` | `LibraryProofs` | `Spec => []DistinctFiles` |
| `ArtistVictimsStayGone` | `LibraryProofs` | `Spec => []ArtistVictimsAreGone` |
| `AlbumsStayListed` | `LibraryTreeProofs` | `Spec /\ []TargetsFree => []AlbumsListed` |
| `AlbumsStayListedApart` | `LibraryTreeProofs` | `Spec => []AlbumsListed`, if `ArtistsApart` |
| `LinksStay` | `LibraryTreeProofs` | `Spec /\ LinksHold /\ [](TitlesFree /\ ListedInPlace) => []LinksHold` |
| `InventoryHolds` | `SequentialProofs` | `Spec => []Inventory`, if `Sequential` |
| `TagsFollowHolds` | `SequentialProofs` | `Spec => []TagsFollow`, if `Sequential` |
| `ShelfImplemented` | `ShelfProofs` | `SequentialSpec => ImplementsShelf`, if `Sequential` and `Furnished` |
| `ListTypeCorrect` | `PlaylistsProofs` | `ListSpec => []ListTypeOK` |
| `ListDistinctFiles` | `PlaylistsProofs` | `ListSpec => []DistinctFiles` |
| `FilesOfPlaylists` | `PlaylistsProofs` | `ListSpec => []PlaylistFilesComplete` |
| `RestartTypeCorrect` | `RestartProofs` | `RestartSpec => []RestartTypeOK` |
| `ScanFindsFiles` | `RestartProofs` | `RestartSpec => []FilesFound` |
| `RescanIsIdempotent` | `RestartProofs` | `RestartSpec => []RescanChangesNothing` |
| `ScanRestoresPlaylistFiles` | `RestartProofs` | `RestartSpec => []PlaylistFilesRestored` |
| `TypeCorrect` | `DispatcherProofs` | `Spec => []TypeOK` |
| `OneItem` | `DispatcherProofs` | `Spec => []OneItemPerFile` |
| `NobodySkipped` | `DispatcherProofs` | `Spec => NobodyIsSkipped` |
| `HandlerKept` | `DispatcherProofs` | `Spec => HandlerIsKept` |
| `HandledOnce` | `DispatcherProofs` | `Spec => []HandledOncePerRelease` |

Assumptions: `NamesAssumption` and `SentinelAssumption` (`Store`),
`LibraryAssumption` and `InitialAssumption` (`Library`), `PlaylistsAssumption` and
`ListNamesAssumption` (`Playlists`; the names of playlists go through
`GetCompatibleString` too), `RestartAssumption` (`Restart`; no two paths have the
same place in the walk), `DispatcherAssumption` (`Dispatcher`; its clients are a finite
set, so that they can be counted).  TLC evaluates each on the runs.  But for the
six on album lists, on links and on one client, which state what they need, the
theorems need none of the restrictions on requests of section 3.

*Library types.*  `TypeOK` is not inductive: whether `Head(loc[p].todo)` is a
playlist, or `loc[p].path` a path, depends on the step.  The invariant is
`ControlOK /\ DataOK`.  `ControlOK` says for each step what the frame holds (the
length of `from` and `to`, a path where one is read, a list that is not empty in
a loop) and that the lock is held exactly in `Victims` and `Nested`.  `DataOK` is
the rest of the types.  `StoreProofs` has a lemma per transaction, so that each
action's proof cites one.

*Distinct files.*  A song is stored only by `CreateSongTx` under its own key, or
was scanned at a path outside the places MuLi uses.  `Filed` says so; that two
songs with scanned paths differ is a fact of the initial states that every
transaction keeps (`KeepsPaths`), because none writes a path that is not a key.

*Victims.*  While `DeleteArtist` removes files the database is locked, so no
transaction can add a song; and the songs it left have other files, by distinct
files.  `KeepsVictims` has the case of each action.  The same is not true of
`DeleteAlbum`, whose victims may still be in the database (`objectmanager.go:812`).

*Album lists.*  `AlbumsListed` is false without a hypothesis: `MoveArtist` that finds an
artist at the new name writes over the list of that artist (`copy`,
`moveManager.go:168`).  `TargetsFree` says that it never does so, and is all that is
needed.  The rest is `ListsStep`: each transaction changes a list and the buckets
together, but for `ProcessNewAlbum`, which takes the old album off the list while its
bucket is still there.  `Errands` keeps what `MoveAlbum` has in hand: from then on
until `EndAlbum` the frame names the old album and every song that is moved lies in
it, so that `Emptying` holds at each step between (`KeepsEmptying`).
`AlbumsStayListedApart` replaces the hypothesis on states by one on the constants:
artists are renamed to names that are their own compatible form, clients rename onto
no directory, and no file in `drop` at the start has such a name as its artist.
`TargetsApart` is the invariant: the kernel locks the root for `mkdir`, `remove` and
`rename` of artists (`AtRoot`), so that no client makes the artist meanwhile, and the
dispatcher, which it does not lock out, makes none of that name.  The instance of
`library_concurrent` satisfies `ArtistsApart`.

*Links.*  Only the loops of `MoveSongs` touch links (`LeavesLinks` is what any other
transaction does).  `LinkFrame` relates the frame to the database: in `Unlist` the song
had playlists, and the path that `AddPath` read is still the path of the song in
`AddEntry`, sessions later, because a song keeps its path until it is deleted.
`OffListsKept` shows that a song off its playlists is deleted next, because its album
exists (`Housed`, `SongsHoused`), so that the exception of `LinksHold` ends with the
song and not with a broken link.  Two hypotheses name the cases in which the code does
break links: `TitlesFree`, no other song of the playlist has the title (entries are
keyed by the title alone, `playlistManager.go:302`), and `ListedInPlace`, the rename of
the file does not fail after the song was taken off its playlists (`moveManager.go:71`
returns without putting it back).  Both hold in every state of `library_playlists`.

*One client.*  `Inventory` and `TagsFollow` say nothing while a handler is at work,
and a move of an artist is a row of some ten steps per song, so the invariant
`OrderOK` is about the steps.  `Balance` says by which files the disk and the
records differ at each (after `CreateSong` one record is without its file, after
`RenameFile` the old record has no file and the file no record, in `Victims` the files
still to be removed have no record), `Labels` which tags are still to be written.
That the difference is made up depends on what the handler carries along from
earlier steps (`Carried`).  The two loops are the hard part, because each ends by
deleting the old album or artist with all that is in it: `AlbumLoop` says that every
song of the old album is still to go, with the path at which it was found, or at
hand, and that the new album has a directory and no song whose file lies elsewhere;
`ArtistLoop` says that every song of the old artist is in an album still to go or at
hand, which `AlbumsListed` provides at the start.  So the song at hand can always be
moved and what is deleted is empty.  A handler that waits for itself (`Nested`) owes
nothing: the two properties are not about a system that has stopped.

The hypothesis `Sequential` (`OneClient`) is on the constants alone and names the
cases in which the properties are known to fail: a second client, drops, a rename
onto an existing directory, names that `GetCompatibleString` changes, song names
without `.mp3`, the removal of an album not called like its artist, and a rename of
a song onto a stray.  The library at the start must satisfy the two properties.
Playlists may be there, with any links.  `MCShelf` assumes `Sequential` and
`Furnished`, so that TLC evaluates them on the instance of `library_sequential`.  TLC checked `OrderOK` on that
instance, and on one with a playlist, before it was proved.

*Refinement.*  `ShelfImplemented` says that Library under one client takes only steps
of `Shelf` or none: a request that is answered has had its whole effect on artists,
albums, songs and strays, and no other.  All of the effect shows at once in `between`,
when the handler returns, but is made in many sessions, so the invariant `ShelfOK`
relates the tree in the middle of a request to the one before it.  `Result(t, r)` is
what `Shelf` makes of tree `t` when it answers `r` (`AnswerGives`).  `Promise` says
that the `Result` of the tree as it is now is the `Result` of the tree as it was:
each session does something that the request would do anyway, and a song that
`DeleteOld` has deleted and `CreateNew` has not yet stored counts as still there
(`InTransit`).  When the handler returns the tree is `Fixed`: its `Result` is itself,
so it is the `Result` of the tree before.  To see that, one has to know where the
handler is going, and that nothing has been left behind: `Aimed` relates the frame to
the request (the song at hand goes where `Result` sends it, every album of the old
artist is on the list still to go or at hand), and `AlbumLoop` of `OrderOK` that every
song of the old album is.  The early returns do not count as a failure to do what was
asked: with what `Finds` and `Carried` say they cannot be taken, but for the rename of
a stray, of which `Shelf` says that it has no effect.

`HasDirs`, every artist and album has its directory, keeps `os.Mkdir` and `os.Rename`
of a move from failing half way.  It starts from `Furnished`, a hypothesis on the
libraries at the start that `Sequential` does not need: the scan makes no directories,
so an artist whose files all lie elsewhere has none, and an album that is moved to
that artist stays (`moveManager.go:341` returns the error of `os.Mkdir`, before
anything has changed), which `Shelf` does not promise.  TLC checked `ShelfOK` with
one client and four requests before it was proved.

The theorem does not say that a request is answered, nor is it always true
(`nested_open`): a handler in `Nested` has kept its promise and never returns.

*Playlists.*  `ListInv` adds to the library's invariant what `call[p]` holds at each
step (`ListShape`).  A step of `Library` taken inside a playlist handler is a step
of `Library`, so its lemmas are used again; only the calls of `MoveSongs` and
`HandleDrop`, and the return from them, are new.

*Playlist files.*  `PlaylistFilesComplete` says nothing while a handler is at work,
so it is far from inductive.  The invariant is `AllWritten`: an m3u file belongs
to a playlist, and it has all of the playlist's songs or some process owes it
(`Owes`), that is, it is at a step that ends in writing that file.  A transaction
that gives a playlist an entry makes its process owe the file (`AddEntry`,
`AddSongEntry`, `RenamePlaylist`); every other step leaves the entries of the
playlist as they are or takes some away, and what a process owes changes only
with its own steps (`OthersOwe`).  When all processes are idle nobody owes
anything.  TLC checked `AllWritten` on the `playlists` run first.

*The scan.*  `RestartInv` adds to `ListInv` that no handler is at work while MuLi
starts (`Down`) and what each step of the start finds (`PhaseOK`).  Three
invariants describe the scan, and no induction over the walk is needed:

* `WalkOK`: the files that the walk has come to are before those to come, and each
  song they name is in the database, in a listed album, with the path of the last
  of them that names it.  The next file comes later than all of these, so that its
  song is stored last (`StoreCovers`), whether or not it was there already, and the
  tags that are written first are of no file visited.
  With no file left this is `FilesFound`: `SongOf` of the last file is the song.
* `KeptOK`: while a library that a scan has left is scanned again, the database is
  that library, but for the songs that a file still to come names.  The visit of a
  file whose song is there changes its path only, and the last file that names a
  song puts back the path that the last scan gave it.  With no file left this is
  `RescanChangesNothing`.  An end in the middle of the scan makes all files ones to
  come again, which only weakens it.
* `ListsOK`: a playlist file that the scan is done with is the file of a playlist, has
  its lines and is not `ragged`: `main.go` gets past no such file, since
  `ProcessPlaylistPanics` begins anew.  The playlists come into it because a file whose playlist is gone
  makes a new one (`tools/playlister.go:56`, `visitPlaylist`), so that
  `KeptOK` needs `ListsOK`: after one scan there is no such file.

`FilesStep` is what these need of the mounted filesystem: a step that writes an
m3u file writes the lines the database has.  `ScanInv`, the three together, was
checked by TLC on the `restart` run before it was proved.

*Dispatcher.*  `AddFile` keeps the files of the list distinct, which gives
`OneItem`; the loop invariant of `cleanLists` is that no item behind the index is
due, and `RemoveAt` of an item at the index keeps it.  `HandledOnce` counts: a call
still to come is a request, then a message, then an item; a step that adds to one
of the three takes off another, and with `OneItem` the run of a handler takes the
only item of its file.

Only model-checked:

* `LinksKept`, and `AlbumsListed` under `ListSpec` (`LinksHold` is false there);
* `RequestsReturn`, `DropsAreCleared`, `ReleasedIsHandled` and `PushReturns`, which
  are liveness under fairness, out of TLAPS's reach too.

## 5. The plan

Done: all the modules of section 2.  Left, in this order:

1. Proofs: `LinksKept`, for which entries must be shown to be keyed by the title of
   their song, and the songs of playlists to be in their albums (`Housed`,
   `SongsHoused`) under `ListSpec` too; `AlbumsListed` under `ListSpec`.
2. Which songs can be lost with two clients: a weaker `Shelf` that `Library`
   implements without the restriction to one client.
3. Nodes that outlive the rename of their directory (`dir.go:541`).

## 6. Not modelled

Options, flags and the mount itself, logging, reading and writing file contents,
directory listings and description files (they change nothing), the byte formats
of ID3 and m3u, and the test script.  Names are members of a small set, so that
`GetCompatibleString` and the slicing of extensions (`moveManager.go:53`) are not
seen character by character.  A file below `MUSIC_SOURCE` changed by anyone but MuLi,
an m3u file edited by hand, full disks, permissions and a BoltDB file that a crash
has damaged are left out.  `PROJECT.json` says for each component what is covered.

## 7. Running it

    tlc -workers 2 -config MCLibraryConcurrent.cfg MCLibrary.tla
    tlc -workers 2 -config MCShelf.cfg MCShelf.tla
    tlc -workers 2 -config MCPlaylistsRename.cfg MCPlaylists.tla
    tlapm ShelfProofs.tla

Each run's module and configuration is in `PROJECT.json`.  A run takes at most three
minutes, a proof module one to three.
