----------------------------- MODULE OneClient -----------------------------
(***************************************************************************)
(* A client that uses the tree alone.  Sequential is what it must not ask  *)
(* for the library to stay in order; then records, files and tags agree    *)
(* (SequentialProofs), and Library implements Shelf (ShelfProofs).         *)
(***************************************************************************)
EXTENDS Library

\* A path where songs can lie, a file there, and a song that claims it.
Place == Path \ DropFile

FileAt(k, x) == k[x] # NoFile

HasSong(d, x) == \E l \in SongKey : d.songs[l] # NoSong /\ d.songs[l].path = x

Even(d, k) == \A x \in Place : HasSong(d, x) <=> FileAt(k, x)

NamedAfter(tags, l) == <<tags.artist, tags.album, tags.title>> = l

\* A song in its own place has the tags of that place, if it has any.
Labelled(d, k, l) ==
    d.songs[l] # NoSong /\ d.songs[l].path = l /\ k[l] \in Tags => NamedAfter(k[l], l)

\* What the two theorems state, at any time.
Settled(d, k) == Even(d, k) /\ \A l \in SongKey : Labelled(d, k, l)

\* The songs that do not lie where MuLi would put them.
Strays(d) == {k \in SongKey : d.songs[k] # NoSong /\ d.songs[k].path # k}

Found == UNION {Strays(i.db) : i \in Initial}

Named(d) == \A ab \in d.albums : ab[2] # NoName

(***************************************************************************)
(* One client that makes its requests one after the other, nothing dropped *)
(* beside it, names that need no change, and none of the requests that are *)
(* known to lose songs: the removal of an album that is not called like    *)
(* its artist, and the move of a song onto one that a scan found elsewhere.*)
(***************************************************************************)
Sequential ==
    /\ \E c \in Client : Client = {c}
    /\ ~ReplaceDirs
    /\ \A n \in DirName \cup TitleName : Compat[n] = n
    /\ TitleName \subseteq Mp3Name
    /\ \A r \in Requests :
          /\ r.op # "drop"
          /\ NoName \notin ToSet(r.to)
          /\ r.op = "remove" /\ Len(r.from) = 2 => r.from[1] = r.from[2]
          /\ r.op = "rename" => r.to \notin Found
    /\ \A i \in Initial : Settled(i.db, i.disk) /\ Named(i.db)

\* Each artist and each album that the scan leaves has its directory.
Furnished ==
    \A i \in Initial : /\ \A a \in i.db.artists : <<a>> \in i.dirs
                       /\ i.db.albums \subseteq i.dirs

----------------------------------------------------------------------------
(***************************************************************************)
(* Library with one client implements Shelf.  between is a history         *)
(* variable: what the tree held when no request was in progress.  For the  *)
(* refinement a request takes its effect when its handler returns.         *)
(***************************************************************************)
VARIABLE between

\* A song that has lost its file is a stray as well.
Shown(d, f) ==
    LET there == {k \in SongKey : d.songs[k] # NoSong} IN
    [ artists |-> d.artists,
      albums  |-> d.albums,
      songs   |-> there,
      strays  |-> {k \in there : d.songs[k].path # k \/ f[k] = NoFile} ]

SequentialInit == Init /\ between = Shown(db, disk)

SequentialNext ==
    /\ Next
    /\ between' = IF Quiet' THEN Shown(db, disk)' ELSE between

SequentialSpec == SequentialInit /\ [][SequentialNext]_<<vars, between>>

\* The request that is in progress.
Asked ==
    LET busy == {p \in Client : pc[p] # "idle"} IN
    IF busy = {} THEN NoRequest ELSE loc[CHOOSE p \in busy : TRUE].req

Promised ==
    INSTANCE Shelf WITH
        Shelves <- {Shown(i.db, i.disk) : i \in Initial},
        artists <- between.artists,
        albums  <- between.albums,
        songs   <- between.songs,
        strays  <- between.strays,
        asked   <- Asked

(***************************************************************************)
(* README: the songs, albums and artists "can be read, moved, modified and *)
(* deleted without any problem".  A client that makes one request at a     *)
(* time finds, after each, all of the effect it asked for and nothing      *)
(* else: however many sessions and file operations its handler takes, no   *)
(* song is lost or doubled, none is left in an old place, and none loses   *)
(* its file.                                                               *)
(***************************************************************************)
ImplementsShelf == Promised!ShelfSpec
=============================================================================
