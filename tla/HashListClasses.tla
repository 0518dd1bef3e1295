-------------------------- MODULE HashListClasses --------------------------
(***************************************************************************)
(* The classes of storeds/hashlist and the memory they use: the list of    *)
(* ListSteps and a cell of the index for each key.                         *)
(***************************************************************************)
EXTENDS ListSteps

IndexCell(k) == <<0, "index", k>>
IndexCells == {IndexCell(k) : k \in Key}
HashListCell == ListCell \cup IndexCells

\* The classes of storeds/hashlist.
hl_dram == Class("hashlist_dram", "dram", "none", TRUE)
hl_dram_conc_mlock ==
  [hl_dram EXCEPT !.name = "hashlist_dram_conc_mlock", !.lock = "mutex"]
hl_vmem == Class("hashlist_vmem", "vmem", "none", TRUE)
hl_vmem_conc_mlock ==
  [hl_vmem EXCEPT !.name = "hashlist_vmem_conc_mlock", !.lock = "mutex"]
hl_vmem_conc_pmlock ==
  [hl_vmem EXCEPT !.name = "hashlist_vmem_conc_pmlock", !.lock = "mutex"]
hl_pmem == Class("hashlist_pmem", "pmem", "none", TRUE)
hl_pmem_conc_mlock ==
  [hl_pmem EXCEPT !.name = "hashlist_pmem_conc_mlock", !.lock = "mutex"]
hl_pmem_conc_vmlock ==
  [hl_pmem EXCEPT !.name = "hashlist_pmem_conc_vmlock", !.lock = "mutex"]
hl_pmem_tx == Class("hashlist_pmem_tx", "tx", "none", TRUE)
hl_pmem_tx_conc_mlock ==
  [hl_pmem_tx EXCEPT !.name = "hashlist_pmem_tx_conc_mlock", !.lock = "mutex"]
=============================================================================
