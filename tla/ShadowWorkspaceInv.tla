------------------------ MODULE ShadowWorkspaceInv ------------------------
(* The inductive invariant behind ReadTellsTheFile, GrepSearchesEveryFile,    *)
(* ListShowsTheFiles, TempsAreInFlight and WritesFollowTheView.               *)
EXTENDS ShadowWorkspace

Reading == {"resolveRead", "statUpper", "statLower", "readFile"}
Writing == {"resolve", "writeTemp", "rename", "discard", "remove"}

(* A handler at work on an operation has one, of the kind its step is for. *)
Progress(c) ==
    /\ pc[c] \in Reading \cup Writing \cup {"error"} => todo[c] # <<>>
    /\ pc[c] \in Reading => Op(c).act \in {"read", "edit", "update"}
    /\ pc[c] \in Writing => Op(c).act \in {"add", "edit", "update", "delete"}
    /\ pc[c] = "remove" => Op(c).act = "delete"
    /\ pc[c] \in {"ok", "idle", "listUpper", "listLower"} => todo[c] = <<>>

(* What a handler is about to write is what the operation makes of a content  *)
(* the view has shown.                                                        *)
Made(c, content) == content \in Content /\ MadeOf(c, Op(c), content)

OutIsMade(c) ==
    /\ pc[c] = "resolve" /\ Op(c).act \in {"edit", "update"} => Made(c, out[c])
    /\ pc[c] = "writeTemp" => Made(c, out[c])
    /\ pc[c] = "rename" => Made(c, temp[c])
    /\ temp[c] # Missing => pc[c] \in {"rename", "discard"}

(* The operations left are of the request's kind: a read_file or a grep       *)
(* consists of reads.                                                         *)
OpsFitRequest(c) ==
    /\ req[c].tool \in {"read_file", "grep"} => \A i \in DOMAIN todo[c] : todo[c][i].act = "read"
    /\ pc[c] \in {"listUpper", "listLower"} => req[c].tool \in {"list_dir", "grep"}
    /\ req[c].tool = "list_dir" => pc[c] \in {"listUpper", "listLower", "ok"}
    /\ req[c].tool = "grep" => pc[c] \notin {"idle", "error"}
    /\ req[c].tool = "read_file" => pc[c] # "idle"

(* The history holds what the merged view shows now. *)
ViewIsSeen(c) == pc[c] # "idle" => \A p \in Path : View(upper)[p] \in seen[c][p]

(* The layer a read is sent to shows, or has shown, what the view has, unless *)
(* the upper copy it was sent to is gone.                                     *)
LayerIsSeen(c) ==
    /\ pc[c] = "statLower" => Lower[Op(c).path] \in Sources(c, Op(c).path)
    /\ pc[c] = "readFile" =>
         IF at[c] = "upper"
         THEN \/ upper[Op(c).path] # Missing \/ Lower[Op(c).path] = Missing
              \/ Op(c).path \in uncovered[c]
         ELSE Lower[Op(c).path] \in Sources(c, Op(c).path)

HitsAreSeen(c) == \A p \in Path, v \in Content : <<p, v>> \in hits[c] => v \in seen[c][p]

ErrorIsSeen(c) ==
    (req[c].tool = "read_file" /\ pc[c] = "error") =>
       Missing \in seen[c][Op(c).path] \/ Op(c).path \in Denied \cup uncovered[c]

(* A listing has, or will have, every file that stays, and no other. *)
ListIsComplete(c) ==
    \A p \in Path :
       /\ pc[c] = "listLower" /\ Missing \notin seen[c][p] => p \in names[c] \cup InLower
       /\ pc[c] = "ok" /\ req[c].tool = "list_dir" /\ Missing \notin seen[c][p] => p \in names[c]
       /\ p \in names[c] => \E v \in seen[c][p] : v # Missing

(* A file that stays is searched, or still on the list. *)
SearchIsComplete(c) ==
    (req[c].tool = "grep" /\ pc[c] \in Reading \cup {"ok"} /\ found[c] < MaxMatches) =>
       \A p \in Path \ (Denied \cup uncovered[c]) :
          \/ Missing \in seen[c][p]
          \/ \E v \in Content : v \in seen[c][p] /\ <<p, v>> \in hits[c]
          \/ \E i \in DOMAIN todo[c] : todo[c][i].path = p

ClientInv(c) ==
    /\ Progress(c)
    /\ OutIsMade(c)
    /\ OpsFitRequest(c)
    /\ ViewIsSeen(c)
    /\ LayerIsSeen(c)
    /\ HitsAreSeen(c)
    /\ ErrorIsSeen(c)
    /\ ListIsComplete(c)
    /\ SearchIsComplete(c)

Inv ==
    /\ TypeOK
    /\ \A c \in Client : ClientInv(c)
=============================================================================
