--------------------------- MODULE FileEditingInv ---------------------------
(***************************************************************************)
(* The inductive invariant of FileEditing, which FileEditingProofs proves. *)
(***************************************************************************)
EXTENDS FileEditing

\* A request is made of a file an agent can read; one that changes the file
\* makes the pages read so far void.
Requests ==
    request # None =>
        /\ file \in Files
        /\ request[1] \in {"read", "edit", "update"}
        /\ request[1] = "read" =>
              /\ request[2].offset = Len(pages) + 1
              /\ request[2].limit \in Limits
        /\ request[1] = "update" => request[2] \in Patches
        /\ request[1] # "read" => pages = <<>> /\ endedBy = 0

\* The pages are the first lines of the file as it is.
Shown ==
    pages # <<>> \/ endedBy # 0 =>
        /\ file \in Files
        /\ \E n \in 0..Len(Lines(file)) : pages = SubSeq(Lines(file), 1, n)
        /\ endedBy # 0 => pages = Lines(file) \/ Len(pages) + endedBy > WordMax

ReadingInv == Requests /\ Shown
=============================================================================
