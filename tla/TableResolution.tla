--------------------------- MODULE TableResolution ---------------------------
(***************************************************************************)
(* From the source a FROM clause names to the files of a table: plain and  *)
(* Hive-partitioned Parquet (src/io/table_resolution.cpp), Iceberg         *)
(* (src/iceberg), Delta (src/delta) and Unity Catalog (src/unitycatalog).  *)
(*                                                                         *)
(* A source is a record.  scheme is its URI's scheme, objects the Parquet  *)
(* files stored for it, in the order of their URIs (a path is a position), *)
(* deletes its Iceberg position-delete files and meta what the catalog or  *)
(* the log says of it.  An object has the key=value directories above it   *)
(* (dirs), its schema, its row groups and the store whose credentials can  *)
(* open it.  A partition value is text until its type is known: int, date  *)
(* and bool are <<v>> where the text reads as a v and <<>> where it does   *)
(* not (int may be too large a number, date a day that is not in the       *)
(* calendar: <<NULL>>), str is the text itself.  Elsewhere a stored value  *)
(* is <<type, v>>.                                                         *)
(***************************************************************************)
EXTENDS Pruning, Calendar

\* The elements of s whose positions are in K, in their order
AtPositions(s, K) == FlattenSeq([i \in DOMAIN s |-> IF i \in K THEN <<s[i]>> ELSE <<>>])

ResolvedFile(object, values) ==
  [schema |-> object.schema, groups |-> object.groups, store |-> object.store, pv |-> values]

\* parts names the partition columns, the last ones of the schema; store is
\* the one the files must be read through
ResolvedTable(schema, parts, files, store) ==
  [ok |-> TRUE, schema |-> schema, parts |-> parts, files |-> files, store |-> store]

\* A StorageError or ConfigurationError
Unresolved == [ok |-> FALSE, schema |-> <<>>, parts |-> <<>>, files |-> <<>>, store |-> ""]

\* inspect_parquet_file succeeds
Opens(store, object) == object.store = store

-----------------------------------------------------------------------------
(* Parquet files in directories *)

validate_schema_compatibility(objects) ==
  \A i \in DOMAIN objects : objects[i].schema = objects[1].schema

infer_partition_type(texts) ==
  IF \A x \in texts : x.int # <<>> THEN INT64
  ELSE IF \A x \in texts : x.date # <<>> /\ x.date # <<NULL>> THEN DATE32
  ELSE VARCHAR

FitsInt64(v) == v \in (-IntMax - 1)..IntMax

\* parse_partition_value, of a text of the inferred type: <<>> when it throws
parse_partition_value(text, type) ==
  CASE type = INT64  -> IF FitsInt64(text.int[1]) THEN <<<<type, text.int[1]>>>> ELSE <<>>
    [] type = DATE32 -> <<<<type, text.date[1]>>>>
    [] OTHER         -> <<<<type, text.str>>>>

KeysOf(object) == [k \in DOMAIN object.dirs |-> object.dirs[k].key]

\* The files with their partition values; values[i][k] is <<>> where the text
\* of the i-th file for key k could not be parsed
PartitionedTable(store, objects, keys, types, values) ==
  IF \E i \in DOMAIN objects, k \in DOMAIN keys : values[i][k] = <<>> THEN Unresolved
  ELSE ResolvedTable(objects[1].schema \o [k \in DOMAIN keys |-> Field(keys[k], types[k])], keys,
         [i \in DOMAIN objects |->
            ResolvedFile(objects[i], [k \in DOMAIN keys |-> values[i][k][1]])],
         store)

TypedPartitions(store, objects, keys, types) ==
  PartitionedTable(store, objects, keys, types,
    [i \in DOMAIN objects |->
       [k \in DOMAIN keys |-> parse_partition_value(objects[i].dirs[k].text, types[k])]])

\* Every file has the same schema and the same partition directories, whose
\* names are none of the schema's; a directory tree with no file is an error
resolve_table(store, objects) ==
  LET keys == KeysOf(objects[1])
  IN  IF \/ objects = <<>>
         \/ \E i \in DOMAIN objects : ~Opens(store, objects[i])
         \/ ~validate_schema_compatibility(objects)
         \/ \E i \in DOMAIN objects : KeysOf(objects[i]) # keys
         \/ \E k \in DOMAIN keys : find_field(objects[1].schema, keys[k]) >= 0
        THEN Unresolved
        ELSE TypedPartitions(store, objects, keys,
               [k \in DOMAIN keys |->
                  infer_partition_type({objects[i].dirs[k].text : i \in DOMAIN objects})])

-----------------------------------------------------------------------------
(* Iceberg *)

IcebergTypes == [boolean |-> BOOL, int |-> INT32, long |-> INT64, double |-> FLOAT64,
                 date |-> DATE32, string |-> VARCHAR]

\* A schema of declared types, or <<>> when one of them is not supported
TranslateSchema(fields, types) ==
  IF \E i \in DOMAIN fields : fields[i].type \notin DOMAIN types THEN <<>>
  ELSE [i \in DOMAIN fields |-> Field(fields[i].name, types[fields[i].type])]

iceberg_schema_to_kernellake_schema(fields) == TranslateSchema(fields, IcebergTypes)

\* load_table_metadata: the fields of the current schema
current_schema(meta) ==
  LET s == SelectInSeq(meta.schemas, LAMBDA x : x.id = meta.current_schema_id)
  IN  IF s = 0 THEN <<>> ELSE meta.schemas[s].fields

\* The manifests of the current snapshot, <<>> when there is none
current_manifest_list(meta) ==
  LET s == SelectInSeq(meta.snapshots, LAMBDA x : x.id = meta.current_snapshot_id)
  IN  IF s = 0 THEN <<>> ELSE <<meta.snapshots[s].manifests>>

\* <<>> or the spec
find_partition_spec(meta, id) ==
  LET s == SelectInSeq(meta.specs, LAMBDA x : x.id = id)
  IN  IF s = 0 THEN <<>> ELSE <<meta.specs[s]>>

source_column_name(meta, id) ==
  LET fields == current_schema(meta)
      f == SelectInSeq(fields, LAMBDA x : x.id = id)
  IN  IF f = 0 THEN "" ELSE fields[f].name

\* The value of an Avro branch: only these three are understood
decode_partition_field(x) ==
  CASE x.avro \in {"int", "long"} -> <<<<INT64, x.v>>>>
    [] x.avro = "string"          -> <<<<VARCHAR, x.v>>>>
    [] OTHER                      -> <<>>

\* year, month and day of a date
apply_time_transform(transform, literal) ==
  IF literal.t # DATE32 THEN <<>>
  ELSE CASE transform = "day"   -> <<<<INT64, literal.x>>>>
         [] transform = "month" -> <<<<INT64, months_from_days(literal.x)>>>>
         [] transform = "year"  -> <<<<INT64, civil_from_days(literal.x).year - 1970>>>>
         [] OTHER               -> <<>>

\* <<>> for bucket, truncate and every other transform
apply_transform(transform, literal) ==
  CASE transform = "identity" -> <<<<literal.t, literal.x>>>>
    [] OTHER                  -> apply_time_transform(transform, literal)

partition_values_prove_empty(meta, spec, values, preds) ==
  \E i \in 1..Min({Len(spec.fields), Len(values)}), j \in DOMAIN preds :
    LET f == spec.fields[i]
    IN  /\ source_column_name(meta, f.source_id) # ""
        /\ source_column_name(meta, f.source_id) = preds[j].col
        /\ preds[j].lit.x # NULL
        /\ ComparesEmpty(preds[j].op, decode_partition_field(values[i]),
                         apply_transform(f.transform, preds[j].lit), f.transform = "identity")

is_live_status(status) == status \in {"EXISTING", "ADDED"}

\* How many rows of a position-delete file are about the data file
read_position_delete_counts(rows, path) ==
  Len(SelectSeq(rows, LAMBDA r : r.path = path))

LiveIn(entries) == {i \in DOMAIN entries : is_live_status(entries[i].status)}

\* The live entries of the manifests of one content
LiveEntries(manifests, content) ==
  FlattenSeq([i \in DOMAIN manifests |->
    IF manifests[i].content # content THEN <<>>
    ELSE AtPositions(manifests[i].entries, LiveIn(manifests[i].entries))])

\* The predicates rule the data file of an entry of manifest m out
RuledOut(meta, m, entry, preds) ==
  LET spec == find_partition_spec(meta, m.spec)
  IN  spec # <<>> /\ partition_values_prove_empty(meta, spec[1], entry.partition, preds)

\* The live data files that the predicates do not rule out
UnprunedEntries(meta, manifests, preds) ==
  LET Read(m) == {i \in LiveIn(m.entries) : ~RuledOut(meta, m, m.entries[i], preds)}
  IN  FlattenSeq([i \in DOMAIN manifests |->
        IF manifests[i].content # "DATA" THEN <<>>
        ELSE AtPositions(manifests[i].entries, Read(manifests[i]))])

\* files are the objects of the entries left
IcebergTable(store, schema, files) ==
  IF \E i \in DOMAIN files : ~Opens(store, files[i]) \/ files[i].schema # schema THEN Unresolved
  ELSE ResolvedTable(schema, <<>>, [i \in DOMAIN files |-> ResolvedFile(files[i], <<>>)], store)

\* How many rows of the data file the position-delete files of deletes name
DeletedRows(src, deletes, path) ==
  FoldLeft(LAMBDA n, d : n + read_position_delete_counts(src.deletes[d.path], path), 0, deletes)

\* live are the data files
AfterDeletes(store, src, schema, live, deletes) ==
  LET deleted == [i \in DOMAIN live |-> DeletedRows(src, deletes, live[i].path)]
      kept == AtPositions(live, {i \in DOMAIN live : deleted[i] = 0})
  IN  IF \E i \in DOMAIN live : deleted[i] > 0 /\ deleted[i] < live[i].record_count
        THEN Unresolved
        ELSE IcebergTable(store, schema, [i \in DOMAIN kept |-> src.objects[kept[i].path]])

SnapshotTable(store, src, schema, manifests, preds) ==
  LET deletes == LiveEntries(manifests, "DELETES")
  IN  IF \/ \E d \in ToSet(deletes) : d.content # "POSITION_DELETES" \/ d.format # "PARQUET"
         \/ \E e \in ToSet(LiveEntries(manifests, "DATA")) : e.format # "PARQUET"
        THEN Unresolved
        ELSE AfterDeletes(store, src, schema, UnprunedEntries(src.meta, manifests, preds), deletes)

\* The live data files of the current snapshot that the predicates do not rule
\* out.  One all of whose rows are deleted is dropped; one of which some rows
\* are deleted, an equality delete or another format is an error.
resolve_iceberg_table(store, src, preds) ==
  LET schema == iceberg_schema_to_kernellake_schema(current_schema(src.meta))
      manifests == current_manifest_list(src.meta)
  IN  IF schema = <<>> THEN Unresolved
      ELSE IF manifests = <<>> THEN ResolvedTable(schema, <<>>, <<>>, store)
      ELSE SnapshotTable(store, src, schema, manifests[1], preds)

-----------------------------------------------------------------------------
(* Delta *)

DeltaTypes == [boolean |-> BOOL, byte |-> INT32, short |-> INT32, integer |-> INT32,
               long |-> INT64, double |-> FLOAT64, date |-> DATE32, string |-> VARCHAR]

delta_schema_to_kernellake_schema(fields) == TranslateSchema(fields, DeltaTypes)

parse_delta_partition_value(text, type) ==
  LET Stored(v) == IF v = <<>> \/ v = <<NULL>> THEN <<>> ELSE <<<<type, v[1]>>>>
  IN  CASE type = BOOL           -> Stored(text.bool)
        [] type \in {INT32, INT64} -> IF text.int = <<>> THEN <<>>
                                      ELSE IF FitsInt64(text.int[1]) THEN Stored(text.int) ELSE <<>>
        [] type = FLOAT64        -> IF text.int = <<>> THEN <<>> ELSE <<<<type, ToDouble(text.int[1])>>>>
        [] type = DATE32         -> Stored(text.date)
        [] OTHER                 -> <<<<type, text.str>>>>

\* The columns of the files, then the partition columns
DeltaColumns(full, parts) ==
  SelectSeq(full, LAMBDA f : ~Contains(parts, f.name))
  \o [k \in DOMAIN parts |-> full[find_field(full, parts[k]) + 1]]

\* values[i][k] is <<>> where file i has no value for partition column k, or
\* one that could not be parsed
DeltaTable(store, schema, parts, objects, values) ==
  LET physical == SubSeq(schema, 1, Len(schema) - Len(parts))
      Bad(i) == \/ ~Opens(store, objects[i]) \/ objects[i].schema # physical
                \/ \E k \in DOMAIN parts : values[i][k] = <<>>
  IN  IF \E i \in DOMAIN objects : Bad(i) THEN Unresolved
      ELSE ResolvedTable(schema, parts,
             [i \in DOMAIN objects |->
                ResolvedFile(objects[i], [k \in DOMAIN parts |-> values[i][k][1]])],
             store)

ActiveFiles(store, src, schema, parts) ==
  LET files == src.meta.files
      TypeOf(k) == schema[Len(schema) - Len(parts) + k].type
  IN  DeltaTable(store, schema, parts, [i \in DOMAIN files |-> src.objects[files[i].path]],
        [i \in DOMAIN files |->
           [k \in DOMAIN parts |->
              IF parts[k] \notin DOMAIN files[i].values THEN <<>>
              ELSE parse_delta_partition_value(files[i].values[parts[k]], TypeOf(k))]])

\* The active files of the log's latest version, each with a value for every
\* partition column
resolve_delta_table(store, src) ==
  LET full == delta_schema_to_kernellake_schema(src.meta.fields)
      parts == src.meta.partition_columns
  IN  IF full = <<>> \/ \E k \in DOMAIN parts : find_field(full, parts[k]) < 0
        THEN Unresolved
        ELSE ActiveFiles(store, src, DeltaColumns(full, parts), parts)

-----------------------------------------------------------------------------
(* Unity Catalog brokers a table of one of the other kinds *)

\* The credential a storage scheme needs; the others need none
VendedFor == [s3 |-> "aws", gs |-> "gcp", gcs |-> "gcp", abfs |-> "azure", abfss |-> "azure", az |-> "azure"]

\* The predicates are not passed on.  Temporary credentials are fetched for
\* Delta and Parquet tables in a cloud store, whose files are then read through
\* the store made of them.
unity_resolve(src) ==
  LET meta == src.meta
      table == meta.table
      vends == meta.format \in {"DELTA", "PARQUET", ""} /\ meta.location \in DOMAIN VendedFor
      store == IF vends THEN "vended" ELSE "default"
  IN  IF vends /\ VendedFor[meta.location] \notin meta.credentials THEN Unresolved
      ELSE CASE meta.format = "DELTA"   -> IF meta.endpoint THEN resolve_delta_table(store, table)
                                           ELSE Unresolved
             [] meta.format = "ICEBERG" -> resolve_iceberg_table("default", table, <<>>)
             [] meta.format \in {"PARQUET", ""} -> resolve_table(store, table.objects)
             [] OTHER                   -> Unresolved

\* The resolver of the source's scheme; Delta needs an endpoint configured
resolve_table_or_delegate(src, preds) ==
  CASE src.scheme = "iceberg"      -> resolve_iceberg_table("default", src, preds)
    [] src.scheme = "delta"        -> IF src.meta.endpoint THEN resolve_delta_table("default", src)
                                      ELSE Unresolved
    [] src.scheme = "unitycatalog" -> unity_resolve(src)
    [] OTHER                       -> resolve_table("default", src.objects)
=============================================================================
