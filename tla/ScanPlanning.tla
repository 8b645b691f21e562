---------------------------- MODULE ScanPlanning ----------------------------
(***************************************************************************)
(* The files and row groups a scan of a table reads: convert_scan of       *)
(* src/io/physical_planner.cpp, over table resolution and pruning.         *)
(*                                                                         *)
(* A database maps a path to the source (TableResolution) it names.  A     *)
(* file is a sequence of row groups, a row group one of rows.              *)
(***************************************************************************)
EXTENDS Plans, TableResolution, SqlValues

IsPartition(scan, i) == Contains(scan.parts, scan.schema[i].name)

\* kept are the positions of the columns of the scan; the partition columns
\* among them are not read but filled in from the values a fragment keeps
KeptValues(scan, kept, file) ==
  LET parts == SelectSeq(kept, LAMBDA i : IsPartition(scan, i))
      PartOf(i) == SelectInSeq(scan.parts, LAMBDA n : n = scan.schema[i].name)
  IN  [i \in DOMAIN parts |-> file.pv[PartOf(parts[i])]]

\* A fragment for every file with a row group left to read
Fragments(scan, kept, files) ==
  LET Left(i) == evaluate_pruning(files[i], scan.pushable)
  IN  AtPositions([i \in DOMAIN files |->
                     PhysicalFileFragment(files[i], Left(i), KeptValues(scan, kept, files[i]))],
                  {i \in DOMAIN files : Left(i) # {} \/ files[i].groups = <<>>})

ScanTable(scan, table, kept) ==
  IF ~table.ok THEN ErrPlan("StorageError")
  ELSE ParquetScanNode(Fragments(scan, kept, table.files),
                       SelectSeq(kept, LAMBDA i : ~IsPartition(scan, i)),
                       [i \in DOMAIN kept |-> scan.schema[kept[i]]],
                       [i \in DOMAIN scan.schema |-> SelectInSeq(kept, LAMBDA k : k = i) - 1],
                       table.store)

\* The source is resolved anew; the columns are those required, in the
\* schema's order, or the first when none is
convert_scan(scan, db) ==
  LET fields == scan.schema
      none == \A i \in DOMAIN fields : fields[i].name \notin scan.required
  IN  ScanTable(scan, resolve_table_or_delegate(db[scan.table], scan.pushable),
                SelectSeq([i \in DOMAIN fields |-> i],
                          LAMBDA i : fields[i].name \in scan.required \/ (none /\ i = 1)))

\* table has all files of the scan's source, node those that are read
PrunesSoundly(scan, table, node) ==
  LET Read(f) == UNION {node.x.frags[i].groups : i \in {j \in DOMAIN node.x.frags :
                                                        node.x.frags[j].file = f}}
  IN  table.ok =>
        /\ node.k # "err"
        /\ \A f \in ToSet(table.files) : \A g \in DOMAIN f.groups \ Read(f) :
             \A r \in DOMAIN f.groups[g] : ~SatisfiesAll(f, f.groups[g][r], scan.pushable)
=============================================================================
