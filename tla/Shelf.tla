------------------------------- MODULE Shelf -------------------------------
(***************************************************************************)
(* What the mounted tree promises to a client that uses it alone: artists, *)
(* albums and songs, and for each request of dir.go the effect it has when *)
(* it is answered.  Library implements it step by step (see OneClient);    *)
(* nothing of the database, of the music files or of the order of the      *)
(* steps is seen here.                                                     *)
(*                                                                         *)
(* The one thing that shows through is where a song's file is.  A stray is *)
(* a song whose file is not under the song's names, because a scan found   *)
(* it somewhere else: a request to rename that song has no effect, and to  *)
(* rename its artist or album brings its file in place.                    *)
(***************************************************************************)
EXTENDS Integers, Sequences

CONSTANTS Requests,    \* what is asked: [op, from, to]
          NoRequest,
          Shelves      \* what a scan can leave: [artists, albums, songs, strays]

VARIABLES artists, albums, songs, strays,
          asked        \* the request in progress, or NoRequest

shelf == <<artists, albums, songs, strays>>

On(k) == SubSeq(k, 1, 2)

There(n) == \/ n = <<>>
            \/ Len(n) = 1 /\ n[1] \in artists
            \/ Len(n) = 2 /\ n \in albums
            \/ Len(n) = 3 /\ n \in songs

Above(n) == SubSeq(n, 1, Len(n) - 1)

\* A new directory has a new name; a song may be put in the place of another.
Possible(r) ==
    CASE r.op \in {"mkdir", "create"} -> There(Above(r.to)) /\ ~There(r.to)
      [] r.op = "rename"              -> /\ There(r.from) /\ There(Above(r.to))
                                         /\ Len(r.to) < 3 => ~There(r.to)
      [] OTHER                        -> There(r.from)

Ask(r) ==
    /\ asked = NoRequest /\ asked' = r
    /\ Possible(r)
    /\ UNCHANGED shelf

----------------------------------------------------------------------------
MakeArtist ==
    /\ asked.op = "mkdir" /\ Len(asked.to) = 1
    /\ artists' = artists \cup {asked.to[1]}
    /\ UNCHANGED <<albums, songs, strays>>

MakeAlbum ==
    /\ asked.op = "mkdir" /\ Len(asked.to) = 2
    /\ albums' = albums \cup {asked.to}
    /\ UNCHANGED <<artists, songs, strays>>

MakeSong ==
    /\ asked.op = "create"
    /\ songs' = songs \cup {asked.to}
    /\ UNCHANGED <<artists, albums, strays>>

\* What is closed stays where it is.
CloseSong == asked.op = "release" /\ UNCHANGED shelf

RemoveSong ==
    /\ asked.op = "remove" /\ Len(asked.from) = 3
    /\ songs' = songs \ {asked.from} /\ strays' = strays \ {asked.from}
    /\ UNCHANGED <<artists, albums>>

RemoveAlbum ==
    /\ asked.op = "remove" /\ Len(asked.from) = 2
    /\ albums' = albums \ {asked.from}
    /\ songs' = {k \in songs : On(k) # asked.from}
    /\ strays' = {k \in strays : On(k) # asked.from}
    /\ UNCHANGED artists

RemoveArtist ==
    LET a == asked.from[1] IN
    /\ asked.op = "remove" /\ Len(asked.from) = 1
    /\ artists' = artists \ {a}
    /\ albums' = {x \in albums : x[1] # a}
    /\ songs' = {k \in songs : k[1] # a}
    /\ strays' = {k \in strays : k[1] # a}

RenameSong ==
    /\ asked.op = "rename" /\ Len(asked.from) = 3
    /\ IF asked.from \in strays
       THEN UNCHANGED <<songs, strays>>
       ELSE /\ songs' = (songs \ {asked.from}) \cup {asked.to}
            /\ strays' = strays \ {asked.to}
    /\ UNCHANGED <<artists, albums>>

RenameAlbum ==
    LET x == asked.from
        y == asked.to
    IN
    /\ asked.op = "rename" /\ Len(x) = 2
    /\ albums' = (albums \ {x}) \cup {y}
    /\ songs' = {IF On(k) = x THEN Append(y, k[3]) ELSE k : k \in songs}
    /\ strays' = {k \in strays : On(k) # x}
    /\ UNCHANGED artists

RenameArtist ==
    LET a == asked.from[1]
        b == asked.to[1]
    IN
    /\ asked.op = "rename" /\ Len(asked.from) = 1
    /\ artists' = (artists \ {a}) \cup {b}
    /\ albums' = {IF x[1] = a THEN <<b, x[2]>> ELSE x : x \in albums}
    /\ songs' = {IF k[1] = a THEN <<b, k[2], k[3]>> ELSE k : k \in songs}
    /\ strays' = {k \in strays : k[1] # a}

----------------------------------------------------------------------------
Answer ==
    /\ asked # NoRequest /\ asked' = NoRequest
    /\ \/ MakeArtist \/ MakeAlbum \/ MakeSong \/ CloseSong
       \/ RemoveSong \/ RemoveAlbum \/ RemoveArtist
       \/ RenameSong \/ RenameAlbum \/ RenameArtist

ShelfInit ==
    /\ asked = NoRequest
    /\ \E s \in Shelves : /\ artists = s.artists /\ albums = s.albums
                          /\ songs = s.songs /\ strays = s.strays

ShelfNext == Answer \/ \E r \in Requests : Ask(r)

ShelfSpec == ShelfInit /\ [][ShelfNext]_<<shelf, asked>>
=============================================================================
