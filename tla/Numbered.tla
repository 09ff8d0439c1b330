------------------------------ MODULE Numbered ------------------------------
(* Directories of numbered files, as functions from the names that exist to  *)
(* what each file holds.                                                     *)
EXTENDS Integers

Oldest(S) == CHOOSE n \in S : \A m \in S : n <= m
\* The first of the reverse-sorted matches of a glob; without reverse=True it is
\* the oldest.
Newest(S) == CHOOSE n \in S : \A m \in S : m <= n

\* The directory once the file of that name is written, or written over.
With(directory, name, content) ==
    [n \in DOMAIN directory \cup {name} |->
        IF n = name THEN content ELSE directory[n]]

=============================================================================
