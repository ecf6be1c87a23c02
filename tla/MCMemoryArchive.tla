--------------------------- MODULE MCMemoryArchive ---------------------------
(* One item that is to be remembered, under whatever can happen to it.          *)
EXTENDS MCMemoryIngest

VARIABLE rebuilt   \* history: a full rebuild has dropped the collection

ArchiveInit == Init /\ rebuilt = FALSE
ArchiveNext == Next /\ rebuilt' = (rebuilt \/ (cli.pc = "idle" /\ cli'.pc = "create"))
ArchiveSpec == ArchiveInit /\ [][ArchiveNext]_<<vars, rebuilt>>

\* A full rebuild takes everything out of the index first, under the hands of the
\* workers (retrieve.go Reindex): until then what is completed can be found, and
\* what search finds it goes on finding.
CompletedUntilRebuilt == rebuilt \/ CompletedIsSearchable
SearchableUntilRebuilt ==
  [][rebuilt' \/ \A s \in Sources : Searchable(s) => Searchable(s)']_<<vars, rebuilt>>
=============================================================================
