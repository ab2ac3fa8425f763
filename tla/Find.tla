-------------------------------- MODULE Find --------------------------------
(***************************************************************************)
(* find of the utilities lab: it walks a tree of directories, holding one  *)
(* open in every call of find(), while other processes create and remove   *)
(* files.  A directory is a table of entries, as in xv6: "." and ".." are  *)
(* entries, a removed entry leaves a hole, a new one takes the first hole  *)
(* or, if there is none, the end of the table.                             *)
(*                                                                         *)
(* Paths are short enough for find()'s buffer.  What malloc() returns is   *)
(* followed by zeros: a name that is copied there without its 0 still ends.*)
(***************************************************************************)
EXTENDS Integers, Sequences, FiniteSets, SequencesExt

CONSTANTS
  Kind,     \* "dir", "file" or "device", for every node
  Contents, \* the entries of every directory at first
  Root,     \* where find starts
  Ref,      \* the name it looks for, without blanks
  MaxOpen,  \* descriptors that are left for find: 13, of which one is for stat()
  Volatile  \* bound on the model: <<directory, entry>> that come and go

Nodes == DOMAIN Kind
None  == "none"
Hole  == [name |-> <<>>, node |-> None]  \* inum is 0
Dirs  == {n \in Nodes : Kind[n] = "dir"}
Dot   == <<".">>
Dots  == {Dot, <<".", ".">>}

VARIABLES
  slot,      \* the entries of the directories
  frames,    \* the calls of find() that have a directory open
  where,     \* what the innermost does next
  todo,      \* the directory and the name it is about to open or to stat()
  open,      \* how many descriptors it has open
  hits,      \* how often each path has been printed
  disturbed  \* history: the paths that have been created or removed

findVars == <<slot, frames, where, todo, open, hits, disturbed>>

Entries(d) == {slot[d][k] : k \in DOMAIN slot[d]} \ {Hole}

\* What the kernel finds for a name in d.
Lookup(d, name) ==
  IF \E e \in Entries(d) : e.name = name
  THEN (CHOOSE e \in Entries(d) : e.name = name).node ELSE None

Paths == {<<d, e.name>> : d \in Dirs, e \in UNION {ToSet(Contents[d]) : d \in Dirs}}
         \cup {<<v[1], v[2].name>> : v \in Volatile}

FindInit ==
  /\ slot = Contents
  /\ frames = <<>>
  /\ where = "open"
  /\ todo = <<Root, Dot>>
  /\ open = 0
  /\ hits = [p \in Paths |-> 0]
  /\ disturbed = {}

Resume(fs) == IF fs = <<>> THEN "done" ELSE "read"

\* fmtname() fills a name up with blanks, getname() counts what is not blank
\* and takes so many characters from the front: a blank at the end of a name is
\* lost, and the rest of a name with a blank inside.
Getname(name) ==
  SubSeq(name, 1, Cardinality({k \in DOMAIN name : name[k] # " "}))

-----------------------------------------------------------------------------
\* find() is called.  When it cannot open the path it returns; a path that
\* leads to no directory is closed again.
FindOpen ==
  LET n == Lookup(todo[1], todo[2])
  IN  /\ where = "open"
      /\ IF n \in Dirs /\ open < MaxOpen
         THEN /\ frames' = Append(frames, [dir |-> n, next |-> 1])
              /\ open' = open + 1
         ELSE UNCHANGED <<frames, open>>
      /\ where' = Resume(frames')
      /\ UNCHANGED <<slot, todo, hits, disturbed>>

\* The next entry is read, and passed over if it is a hole.
FindRead ==
  LET f == Last(frames)
      e == slot[f.dir][f.next]
  IN  /\ where = "read"
      /\ f.next <= Len(slot[f.dir])
      /\ frames' = [frames EXCEPT ![Len(frames)].next = @ + 1]
      /\ IF e = Hole THEN UNCHANGED <<where, todo>>
         ELSE where' = "stat" /\ todo' = <<f.dir, e.name>>
      /\ UNCHANGED <<slot, open, hits, disturbed>>

\* The directories find() does not go into.
Skipped(name) == Getname(name) \in Dots

\* What stat() says of a name.  There is no such system call: it opens the
\* name, which may be gone meanwhile, or something else, and it fails, too,
\* when no descriptor is left.
Stat(d, name) == IF open < MaxOpen THEN Lookup(d, name) ELSE None

\* The name is stat()ed; when that fails, the next entry is read.
FindStat ==
  LET d == todo[1]
      name == todo[2]
      n == Stat(d, name)
  IN  /\ where = "stat"
      /\ IF n \in Dirs /\ ~ Skipped(name)
         THEN where' = "open" /\ todo' = <<d, Getname(name)>>
         ELSE where' = "read" /\ UNCHANGED todo
      /\ hits' = IF n # None /\ Kind[n] = "file" /\ Getname(name) = Ref
                 THEN [hits EXCEPT ![todo] = @ + 1] ELSE hits
      /\ UNCHANGED <<slot, frames, open, disturbed>>

\* Mutant of FindEnd: the directory stays open.
FindEndLeaks ==
  /\ where = "read"
  /\ Last(frames).next > Len(slot[Last(frames).dir])
  /\ frames' = Front(frames)
  /\ where' = Resume(frames')
  /\ UNCHANGED <<slot, todo, open, hits, disturbed>>

\* The directory is at its end: it is closed, and the call returns.
FindEnd ==
  /\ where = "read"
  /\ Last(frames).next > Len(slot[Last(frames).dir])
  /\ frames' = Front(frames)
  /\ open' = open - 1
  /\ where' = Resume(frames')
  /\ UNCHANGED <<slot, todo, hits, disturbed>>

-----------------------------------------------------------------------------
\* Other processes

Change(d, entries, name) ==
  /\ slot' = [slot EXCEPT ![d] = entries]
  /\ disturbed' = disturbed \cup {<<d, name>>}
  /\ UNCHANGED <<frames, where, todo, open, hits>>

Create(d, e) ==
  /\ Lookup(d, e.name) = None
  /\ \/ \E k \in DOMAIN slot[d] :
          /\ slot[d][k] = Hole /\ \A l \in 1 .. k - 1 : slot[d][l] # Hole
          /\ Change(d, [slot[d] EXCEPT ![k] = e], e.name)
     \/ /\ \A k \in DOMAIN slot[d] : slot[d][k] # Hole
        /\ Change(d, Append(slot[d], e), e.name)

Unlink(d, e) ==
  \E k \in DOMAIN slot[d] :
    slot[d][k] = e /\ Change(d, [slot[d] EXCEPT ![k] = Hole], e.name)

-----------------------------------------------------------------------------
FindStep == FindOpen \/ FindRead \/ FindStat \/ FindEnd
Others   == \E v \in Volatile : Create(v[1], v[2]) \/ Unlink(v[1], v[2])

FindNext == FindStep \/ Others

-----------------------------------------------------------------------------
\* Properties

NoBlank(name) == \A k \in DOMAIN name : name[k] # " "
Above(d)  == (CHOOSE e \in ToSet(Contents[d]) : e.name = <<".", ".">>).node
NameOf(d) ==
  (CHOOSE e \in ToSet(Contents[Above(d)]) : e.node = d /\ e.name \notin Dots).name

\* What is assumed of the tree.  Each directory has itself and the one above in
\* it, and has one name there, but for the root; going up leads to the root.  No
\* two entries have the same name, a name that Getname cuts short is not that of
\* another directory, and it is not directories that come and go.
FindAssumption ==
  /\ None \notin Nodes /\ Root \in Dirs /\ MaxOpen \in Nat
  /\ Contents \in [Dirs -> Seq([name : Seq(STRING), node : Nodes \cup {None}])]
  /\ \A d \in Dirs :
       /\ [name |-> Dot, node |-> d] \in ToSet(Contents[d])
       /\ [name |-> <<".", ".">>, node |-> Above(d)] \in ToSet(Contents[d])
       /\ Above(d) \in Dirs
       /\ \A k, l \in DOMAIN Contents[d] :
            LET e == Contents[d][k]
                f == Contents[d][l]
            IN  /\ e # Hole => e.node # None
                /\ e.name = f.name /\ e # Hole /\ f # Hole => k = l
                /\ e.node \in Dirs /\ e.name \notin Dots =>
                     /\ e.node # Root /\ Above(e.node) = d
                     /\ e.node = f.node /\ f.name \notin Dots => k = l
                /\ e.node \in Dirs /\ f.node \in Dirs /\ ~ NoBlank(e.name) =>
                     f.name # Getname(e.name)
       /\ d # Root => \E k \in DOMAIN Contents[Above(d)] :
                        LET e == Contents[Above(d)][k]
                        IN  e.node = d /\ e.name \notin Dots
  /\ IsFiniteSet(Dirs)
  /\ \E h \in [Dirs -> 0 .. Cardinality(Dirs)] : \A d \in Dirs \ {Root} : h[Above(d)] < h[d]
  /\ \A v \in Volatile :
       /\ v \in Dirs \X [name : Seq(STRING), node : Nodes]
       /\ v[2].node \notin Dirs

\* How deep a directory is, and whether find() gets there: there must be a
\* descriptor for it and for each one above, and no blank in their names.
Depth[d \in Dirs] == IF d = Root THEN 1 ELSE Depth[Above(d)] + 1
Entered[d \in Dirs] ==
  /\ Depth[d] <= MaxOpen
  /\ d # Root => NoBlank(NameOf(d)) /\ Entered[Above(d)]

\* In the directory that takes the last descriptor every stat() fails.
Searched(d) == Entered[d] /\ Depth[d] < MaxOpen

\* When find is over, every file of that name in a directory that leaves a
\* descriptor for stat() has been printed once, and nothing else, whatever other
\* processes have done to other files meanwhile.  (Nothing is said of files with
\* a blank in their name; no directory has one at the end of its name.)
Found ==
  where = "done" =>
    \A p \in Paths \ disturbed :
      LET here == \E e \in Entries(p[1]) : e.name = p[2] /\ Kind[e.node] = "file"
      IN  NoBlank(p[2]) =>
            hits[p] = IF here /\ p[2] = Ref /\ Searched(p[1]) THEN 1 ELSE 0

\* It is over one day: no directory is a part of itself but for "." and "..".
FindOver == where = "done"
=============================================================================
