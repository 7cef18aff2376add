---------------------------- MODULE Preservation -----------------------------
(***************************************************************************)
(* "preserve manifest", "copy", "verify" and "migration-map": byte-exact   *)
(* copies of project files, made without any lock while the project may be *)
(* edited and other commands run, and the records that tell of them.       *)
(*                                                                         *)
(* A command collects its scope and hashes it, and then does its work file *)
(* by file, in the order of their paths.  What remains of it is a list of  *)
(* steps.  A file read while its content changes may give a mixture; the   *)
(* hashes of a scope, and the verification of a pair, are one step.  What  *)
(* a copy or a verification returns of its inventory, sizes, links inside  *)
(* the archive, the texts of messages and copies that overwrite, which no  *)
(* command makes, are left out.                                            *)
(***************************************************************************)
EXTENDS Integers, Sequences, FiniteSets

CONSTANTS
  Operator,
  MaxRuns, MaxChanges   \* bounds: commands, and edits of the files

VARIABLES
  original,        \* original[p]: content of the project file, or "missing" or "link"
  archived,        \* archived[p]: content of its copy, and who made it
  checksums,       \* the manifest file
  migrationMap,
  agenda,          \* the steps left to an operator's command
  command,         \* what it is
  inventory,       \* the hashes it has taken, if it is to record them
  reading,          \* reading[o]: what the file that o reads held since o opened it
  reported,        \* the operators that were told of a success
  since,           \* since[o][p]: contents of the file since the command began (history)
  disturbed,       \* disturbed[o]: copies that others removed since (history)
  runs, changes

trees == <<original, archived>>
records == <<checksums, migrationMap>>
mine == <<agenda, command, inventory, reading, reported>>
history == <<since, disturbed>>
bounds == <<runs, changes>>

Path == 1 .. 2           \* in the order of their names
Content == {"first", "second"}
Copy(content, by) == [content |-> content, by |-> by]
NoCopy == Copy("missing", "nobody")
NoCommand == [op |-> "none", scope |-> {}]
Archives(c) == c.op \in {"copy", "verify"}
NoHashes == [p \in Path |-> "unknown"]
Unseen == [p \in Path |-> {}]

Init ==
  /\ original = [p \in Path |-> "first"]
  /\ archived \in {[p \in Path |-> NoCopy], <<NoCopy, Copy("old", "nobody")>>}
  /\ checksums = NoHashes /\ migrationMap = NoHashes
  /\ agenda = [o \in Operator |-> <<>>] /\ command = [o \in Operator |-> NoCommand]
  /\ inventory = [o \in Operator |-> NoHashes] /\ reading = [o \in Operator |-> {}]
  /\ reported = {}
  /\ since = [o \in Operator |-> Unseen] /\ disturbed = [o \in Operator |-> {}]
  /\ runs = 0 /\ changes = 0

-----------------------------------------------------------------------------
(* Commands.                                                               *)

Each(scope, names) ==
  LET file(p) == IF p \in scope THEN [n \in DOMAIN names |-> <<names[n], p>>] ELSE <<>>
  IN file(1) \o file(2)

_verify_pair == <<"verify">>
build_inventory == <<<<"hash", 0>>>>
copy_archive(scope) == build_inventory \o Each(scope, <<"look", "open", "fill">> \o _verify_pair)
verify_archive(scope) == build_inventory \o Each(scope, <<"both">> \o _verify_pair)
write_manifest_atomic == <<<<"manifest", 0>>>>
_write_migration_map == <<<<"unwritten", 0>>, <<"map", 0>>>>

Script(c) ==
  CASE c.op = "manifest" -> build_inventory \o write_manifest_atomic
    [] c.op = "copy" -> copy_archive(c.scope)
    [] c.op = "verify" -> verify_archive(c.scope)
    [] c.op = "migration-map" -> build_inventory \o _write_migration_map

\* Paths by name, trees and what Git tracks, which may be gone; a tree is not
\* to contain a link.  An operator never gets further with an empty scope or
\* with a path that is absolute or leaves the project.
collect_scope ==
  LET files == {p \in Path : original[p] \in Content}
      byName == SUBSET Path \ {{}}
      byTree == IF \E p \in Path : original[p] = "link" THEN {} ELSE {files} \ {{}}
      tracked == {Path}
  IN byName \cup byTree \cup tracked

Start(o) ==
  /\ agenda[o] = <<>> /\ runs < MaxRuns
  /\ \E op \in {"manifest", "copy", "verify", "migration-map"}, scope \in collect_scope :
       command' = [command EXCEPT ![o] = [op |-> op, scope |-> scope]]
  /\ agenda' = [agenda EXCEPT ![o] = Script(command'[o])]
  /\ inventory' = [inventory EXCEPT ![o] = NoHashes] /\ reported' = reported \ {o}
  /\ since' = [since EXCEPT ![o] = IF Archives(command'[o]) THEN [p \in Path |-> {original[p]}] ELSE Unseen]
  /\ disturbed' = [disturbed EXCEPT ![o] = {}]
  /\ runs' = runs + 1
  /\ UNCHANGED <<trees, records, reading, changes>>

-----------------------------------------------------------------------------
(* Steps.                                                                  *)

Takes(o, name, p) == agenda[o] # <<>> /\ Head(agenda[o]) = <<name, p>>
Goes(o) ==
  /\ agenda' = [agenda EXCEPT ![o] = Tail(@)]
  /\ reported' = IF Len(agenda[o]) = 1 THEN reported \cup {o} ELSE reported
  /\ UNCHANGED <<command, since>>
Raises(o) ==
  /\ agenda' = [agenda EXCEPT ![o] = <<>>] /\ command' = [command EXCEPT ![o] = NoCommand]
  /\ since' = [since EXCEPT ![o] = Unseen]
  /\ UNCHANGED reported
GoesIf(o, right) == IF right THEN Goes(o) ELSE Raises(o)
Disturbs(o, p) ==
  disturbed' = [other \in Operator |->
                  IF other # o /\ Archives(command[other]) /\ archived[p] # NoCopy
                  THEN disturbed[other] \cup {p} ELSE disturbed[other]]

_require_regular_file(file) == file \in Content \cup {"mixed", "partial", "old"}

HashScope(o) ==
  /\ Takes(o, "hash", 0)
  /\ GoesIf(o, \A p \in command[o].scope : _require_regular_file(original[p]))
  /\ inventory' = IF Archives(command[o]) THEN inventory
                  ELSE [inventory EXCEPT ![o] = [p \in Path |-> IF p \in command[o].scope THEN original[p]
                                                               ELSE "unknown"]]
  /\ UNCHANGED <<trees, records, reading, disturbed, bounds>>

\* Before a pair is copied, or verified.
LookAtPair(o, p) ==
  /\ \/ /\ Takes(o, "look", p)
        /\ GoesIf(o, _require_regular_file(original[p]) /\ archived[p] = NoCopy)
     \/ /\ Takes(o, "both", p)
        /\ GoesIf(o, _require_regular_file(original[p]) /\ _require_regular_file(archived[p].content))
  /\ UNCHANGED <<trees, records, inventory, reading, disturbed, bounds>>

\* A copy that fails after the look removes what is at the destination, whose
\* ever it is.
Unlink(o, p) == archived' = [archived EXCEPT ![p] = NoCopy] /\ Disturbs(o, p)

\* The source is opened first, and then the copy, which is to be a new file.
OpenFiles(o, p) ==
  /\ Takes(o, "open", p)
  /\ IF original[p] = "missing" THEN Raises(o) /\ Unlink(o, p) /\ UNCHANGED reading
     ELSE /\ GoesIf(o, archived[p] = NoCopy)
          /\ IF archived[p] # NoCopy THEN UNCHANGED <<archived, reading>>
             ELSE /\ archived' = [archived EXCEPT ![p] = Copy("partial", o)]
                  /\ reading' = [reading EXCEPT ![o] = {original[p]}]
          /\ UNCHANGED disturbed
  /\ UNCHANGED <<original, records, inventory, bounds>>

Mixtures(o) == reading[o] \cup (IF Cardinality(reading[o]) > 1 THEN {"mixed"} ELSE {})

\* A copy that another operator has removed meanwhile is written all the same,
\* and gone.  The disk may be full.
_copy_file(o, p) ==
  /\ Takes(o, "fill", p)
  /\ \/ /\ \E content \in Mixtures(o) \ {"missing"} :
             archived' = IF archived[p].by = o THEN [archived EXCEPT ![p].content = content] ELSE archived
        /\ Goes(o) /\ UNCHANGED disturbed
     \/ Raises(o) /\ Unlink(o, p)
  /\ reading' = [reading EXCEPT ![o] = {}]
  /\ UNCHANGED <<original, records, inventory, bounds>>

Same_Unverified(p) == TRUE
Same(p) == original[p] = archived[p].content /\ original[p] # "missing"

\* By hash and byte for byte.
VerifyPair(o, p) ==
  /\ Takes(o, "verify", p)
  /\ GoesIf(o, Same(p))
  /\ UNCHANGED <<trees, records, inventory, reading, disturbed, bounds>>

WriteRecord(o) ==
  /\ \/ Takes(o, "manifest", 0) /\ checksums' = inventory[o] /\ Goes(o) /\ UNCHANGED migrationMap
     \/ Takes(o, "unwritten", 0) /\ GoesIf(o, migrationMap = NoHashes) /\ UNCHANGED records
     \/ Takes(o, "map", 0) /\ migrationMap' = inventory[o] /\ Goes(o) /\ UNCHANGED checksums
  /\ UNCHANGED <<trees, inventory, reading, disturbed, bounds>>

-----------------------------------------------------------------------------
(* Edits and kills.                                                        *)

Change ==
  /\ changes < MaxChanges
  /\ \E p \in Path, content \in (Content \cup {"missing", "link"}) :
       /\ content # original[p]
       /\ content = "link" => \A o \in Operator : agenda[o] = <<>>
       /\ original' = [original EXCEPT ![p] = content]
       /\ since' = [o \in Operator |-> IF Archives(command[o]) THEN [since[o] EXCEPT ![p] = @ \cup {content}]
                                   ELSE Unseen]
       /\ reading' = [o \in Operator |-> IF Takes(o, "fill", p) THEN reading[o] \cup {content} ELSE reading[o]]
  /\ changes' = changes + 1
  /\ UNCHANGED <<archived, records, agenda, command, inventory, reported, disturbed, runs>>

Kill(o) ==
  /\ agenda[o] # <<>> /\ Raises(o)
  /\ reading' = [reading EXCEPT ![o] = {}]
  /\ UNCHANGED <<trees, records, inventory, disturbed, bounds>>

-----------------------------------------------------------------------------
Next ==
  \/ \E o \in Operator : Start(o) \/ Kill(o) \/ HashScope(o) \/ WriteRecord(o)
  \/ \E o \in Operator, p \in Path :
       \/ LookAtPair(o, p) \/ OpenFiles(o, p) \/ _copy_file(o, p)
       \/ VerifyPair(o, p)
  \/ Change

vars == <<trees, records, mine, history, bounds>>
Spec == Init /\ [][Next]_vars

-----------------------------------------------------------------------------
\* A copy or a verification that reported success leaves, for every file of its
\* scope, a whole copy of what the file held since the command began: never a
\* mixture, a part or an older copy, whatever edits, kills and other commands
\* came between.  So without an edit the archive is what the inventory says.
\* The exception: copies that another command removed meanwhile.
ArchivedIsWhole ==
  \A o \in reported : Archives(command[o]) =>
    \A p \in command[o].scope \ disturbed[o] : archived[p].content \in since[o][p] \cap Content
=============================================================================
