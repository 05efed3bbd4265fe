---------------------------- MODULE MCPlaylists ----------------------------
(***************************************************************************)
(* Instances of Playlists for TLC: two albums of one artist, a playlist    *)
(* with a song in each of them, and a file that is copied into the first   *)
(* playlist.                                                               *)
(***************************************************************************)
EXTENDS Playlists

CONSTANTS A, B,      \* names of artists and albums
          s1, s2, s3, s4, \* song names
          pl1, pl2,  \* playlists
          Dotted,    \* a raw name that GetCompatibleString turns into pl2
          Blanks,    \* a raw name of which it leaves nothing
          copied     \* a file in the directory of pl1

SameNames == [n \in DirName \cup TitleName |-> n]
SameTitle == [n \in TitleName |-> n]
FileName  == [f \in OtherPath |-> s2]
InFirst   == [f \in ListDrop |-> pl1]

StripsDots == [pl \in Playlist |-> CASE pl = Dotted -> pl2 [] pl = Blanks -> NoList [] OTHER -> pl]

Tagged(k) == [artist |-> k[1], album |-> k[2], title |-> k[3], mp3 |-> FALSE]

First  == <<A, A, s1>>   \* the song of pl1
Second == <<A, B, s2>>   \* the song of pl2

TwoLists ==
    LET songs == {First, Second}
        list(k) == IF k = First THEN pl1 ELSE pl2
    IN
    [ db |->
        [ artists   |-> {A},
          listed    |-> [a \in DirName |-> IF a = A THEN <<A, B>> ELSE <<>>],
          albums    |-> {<<A, A>>, <<A, B>>},
          songs     |-> [k \in SongKey |-> IF k \in songs
                            THEN [path |-> k, lists |-> <<list(k)>>] ELSE NoSong],
          playlists |-> {pl1, pl2},
          entries   |-> [e \in Playlist \X TitleName |->
                            IF \E k \in songs : e = <<list(k), k[3]>>
                            THEN LET k == CHOOSE k \in songs : e = <<list(k), k[3]>>
                                 IN  [key |-> k, path |-> k]
                            ELSE NoEntry] ],
      disk |-> [f \in Path |-> IF f \in songs THEN Tagged(f) ELSE NoFile],
      dirs |-> {<<A>>, <<A, A>>, <<A, B>>} ]

TwoListsOnly == {TwoLists}

R(op, from, to) == [op |-> op, from |-> from, to |-> to, file |-> NoPath]

SongRequests ==
    {R("rename", First, <<A, B, s3>>), R("rename", Second, <<A, A, s3>>), R("remove", Second, <<>>)}

OnList(op, step, pl, to) == [NoCall EXCEPT !.op = op, !.step = step, !.list = pl, !.to = to]

PlaylistRequests ==
    {OnList("mkdir", "CreatePlaylist", NoList, pl) : pl \in {pl1, Blanks}}
    \cup {OnList("remove", "DeletePlaylist", pl1, NoList)}
    \cup {OnList("rename", "RenamePlaylist", pl1, Dotted), OnList("rename", "RenamePlaylist", pl2, Blanks),
           OnList("rename", "RenamePlaylist", pl2, Dotted),
          OnList("rename", "RenamePlaylist", pl2, pl1)}
    \cup {[OnList("move", "getPlaylistFile", pl1, NoList) EXCEPT !.old = s1, !.new = s3]}

\* The song that pl1 has already, that of pl2, and one of an artist that is not
\* there yet, with the title of the first.
Copies == {Tagged(First), Tagged(Second), Tagged(<<B, B, s1>>)}

----------------------------------------------------------------------------
(* A playlist renamed onto another one that has a song of it, and back.    *)

NoRequests == {}

MergeRequests ==
    {OnList("rename", "RenamePlaylist", pl2, pl1), OnList("rename", "RenamePlaylist", pl1, pl2),
     OnList("remove", "DeletePlaylist", pl1, NoList)}

SharedCopy == {Tagged(Second)}
=============================================================================
