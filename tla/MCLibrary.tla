----------------------------- MODULE MCLibrary -----------------------------
(***************************************************************************)
(* Instances of Library for TLC: two or three artist names that serve as   *)
(* album names too (so that self-titled albums exist), two song names, the *)
(* libraries a scan can leave, and the sets of requests of each run.       *)
(***************************************************************************)
EXTENDS Library

CONSTANTS A, B, C,   \* names of artists and albums
          Bang,      \* a raw name that GetCompatibleString turns into B
          s1, s2,    \* song names
          pl1,       \* a playlist
          scanned,   \* a file somewhere below MUSIC_SOURCE
          dropped    \* a file in drop

Identity   == [n \in DirName \cup TitleName |-> n]
StripsBang == [n \in DirName \cup TitleName |-> IF n = Bang THEN B ELSE n]

\* In these runs no file without tags, and none that MuLi has tagged, is read.
FirstName == [f \in OtherPath |-> s1]
SameTitle == [n \in TitleName |-> n]

R(op, from, to) == [op |-> op, from |-> from, to |-> to, file |-> NoPath]

Mkdir(n)        == R("mkdir", <<>>, n)
Create(n)       == R("create", <<>>, n)
Release(n)      == R("release", n, <<>>)
Delete(n)       == R("remove", n, <<>>)
Rename(from, to) == R("rename", from, to)
Drop(f)         == [R("drop", <<>>, <<>>) EXCEPT !.file = f]

Tagged(k) == [artist |-> k[1], album |-> k[2], title |-> k[3], mp3 |-> FALSE]

(***************************************************************************)
(* The library with these artists, albums and songs (key to path), with    *)
(* the songs of listed in playlist pl1 and with files waiting in drop.     *)
(***************************************************************************)
Scan(artists, lists, songs, inList, drops) ==
    LET albums == UNION {{<<a, b>> : b \in ToSet(lists[a])} : a \in artists}
        keys   == DOMAIN songs
        links(k) == IF k \in inList THEN <<pl1>> ELSE <<>>
        at(f)    == {k \in keys : songs[k] = f}
    IN
    [ db |->
        [ artists   |-> artists,
          listed    |-> [a \in DirName |-> IF a \in artists THEN lists[a] ELSE <<>>],
          albums    |-> albums,
          songs     |-> [k \in SongKey |-> IF k \in keys
                            THEN [path |-> songs[k], lists |-> links(k)] ELSE NoSong],
          playlists |-> Playlist,
          entries   |-> [e \in Playlist \X TitleName |->
                            LET ks == {k \in inList : k[3] = e[2]} IN
                            IF ks = {} THEN NoEntry
                            ELSE LET k == CHOOSE x \in ks : TRUE
                                 IN  [key |-> k, path |-> songs[k]]] ],
      disk |-> [f \in Path |->
                  IF at(f) # {} THEN Tagged(CHOOSE k \in at(f) : TRUE)
                  ELSE IF f \in DOMAIN drops THEN drops[f] ELSE NoFile],
      dirs |-> {<<a>> : a \in artists} \cup albums ]

NoSongs == [k \in {} |-> NoPath]
NoDrops == [f \in {} |-> Untagged]

----------------------------------------------------------------------------
(* One client at a time, names that need no change.                        *)

Names == DirName \ {NoName}

Places == {<<A, A>>, <<A, B>>, <<B, A>>, <<C, A>>}

\* B has an album without songs, and A a song that a scan found elsewhere.
TwoArtists == Scan({A, B}, (A :> <<A, B>> @@ B :> <<A>>),
                   (<<A, B, s1>> :> scanned @@ <<A, A, s1>> :> <<A, A, s1>>), {}, NoDrops)

SequentialInitial == {TwoArtists}

SongsAt == {<<ab[1], ab[2], n>> : ab \in Places, n \in TitleName}

SequentialRequests ==
    {Mkdir(<<a>>) : a \in Names} \cup {Mkdir(ab) : ab \in Places}
    \cup {Create(k) : k \in SongsAt} \cup {Release(k) : k \in {l \in SongsAt : l[3] = s2}}
    \cup {Delete(<<a>>) : a \in Names} \cup {Delete(<<a, a>>) : a \in {A, B}}
    \cup {Delete(k) : k \in SongsAt}
    \cup {Rename(<<a>>, <<b>>) : a, b \in Names}
    \cup {Rename(ab, bc) : ab, bc \in Places}
    \cup {Rename(k, l) : k \in SongsAt, l \in SongsAt \ {<<A, B, s1>>}}

----------------------------------------------------------------------------
(* Two clients and the dispatcher at the same time.                        *)

Waiting(k) == dropped :> Tagged(k)

SelfTitled == Scan({A}, (A :> <<A, B>>), (<<A, B, s1>> :> scanned @@ <<A, A, s1>> :> <<A, A, s1>>),
                   {}, Waiting(<<A, A, s1>>))

ConcurrentInitial == {SelfTitled}

(***************************************************************************)
(* No client moves an artist to the artist of the waiting file, and of the *)
(* albums only the one called like its artist is removed.                  *)
(***************************************************************************)
ConcurrentRequests ==
    {Mkdir(<<B>>), Mkdir(<<B, A>>), Mkdir(<<A, C>>), Create(<<A, B, s2>>), Release(<<A, B, s1>>),
     Delete(<<A>>), Delete(<<A, A>>), Delete(<<A, B, s1>>),
     Rename(<<A>>, <<B>>), Rename(<<A>>, <<C>>), Rename(<<A, B>>, <<A, C>>), Rename(<<A, B>>, <<B, A>>),
     Rename(<<A, B, s1>>, <<A, A, s2>>), Rename(<<A, A, s1>>, <<A, B, s2>>), Drop(dropped)}

----------------------------------------------------------------------------
(* A song on a playlist, and the same song waiting in drop once more.      *)

Listed == Scan({A}, (A :> <<A, B>>), (<<A, B, s1>> :> <<A, B, s1>> @@ <<A, A, s2>> :> scanned),
               {<<A, B, s1>>}, Waiting(<<A, B, s1>>))

SelfListed == Scan({A}, (A :> <<A, B>>), (<<A, A, s1>> :> <<A, A, s1>> @@ <<A, A, s2>> :> scanned),
               {<<A, A, s1>>}, NoDrops)

PlaylistInitial == {Listed, SelfListed}

PlaylistRequests ==
    {Delete(<<A>>), Delete(<<A, A>>), Delete(<<A, B, s1>>), Delete(<<A, A, s1>>),
     Mkdir(<<B>>), Mkdir(<<B, A>>),
     Rename(<<A>>, <<C>>), Rename(<<A, B>>, <<A, C>>), Rename(<<A, B>>, <<B, A>>),
     Rename(<<A, B, s1>>, <<A, A, s1>>), Rename(<<A, B, s1>>, <<A, B, s2>>),
     Rename(<<A, B, s1>>, <<B, A, s1>>), Rename(<<A, A, s1>>, <<A, B, s1>>),
     Drop(dropped)}

----------------------------------------------------------------------------
(* What the comments and documents say and the code does not do.           *)

NestedRequests == {Delete(<<A, B, s1>>), Create(<<A, A, s1>>)}

RawInitial == {Scan({A}, (A :> <<A>>), (<<A, A, s1>> :> <<A, A, s1>>), {}, NoDrops)}

RawRequests == {Rename(<<A>>, <<Bang>>)}
=============================================================================
