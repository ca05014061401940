------------------------- MODULE ParquetRequirements -------------------------
(***************************************************************************)
(* The generated requirements module parquet/requirements/requirements.py: *)
(* the Requirement records and the Specification object, with its          *)
(* headings tuple, its requirements tuple and its markdown content.  Each  *)
(* record keeps what the registry's consistency depends on: identifier,    *)
(* name, version, level and the dotted number as a sequence of naturals;   *)
(* descriptions and links are left out.  A markdown heading is read as its *)
(* level (the number of "#" minus one), its text and its "version:" line.  *)
(***************************************************************************)
EXTENDS Naturals, Sequences

(* Requirement(...) records: identifier, name, version, level, num. *)

\* Variant with a num edited by hand to the missing parent section.
RequirementsStaleNum ==
  << [var |-> "RQ_SRS_032_ClickHouse_Parquet",
     name |-> "RQ.SRS-032.ClickHouse.Parquet", version |-> "1.0", level |-> 3, num |-> <<4, 1, 1>>],
    [var |-> "RQ_SRS_032_ClickHouse_Parquet_SupportedVersions",
     name |-> "RQ.SRS-032.ClickHouse.Parquet.SupportedVersions", version |-> "1.0", level |-> 3, num |-> <<4, 2, 1>>],
    [var |-> "RQ_SRS_032_ClickHouse_Parquet_ClickHouseLocal",
     name |-> "RQ.SRS-032.ClickHouse.Parquet.ClickHouseLocal", version |-> "1.0", level |-> 3, num |-> <<4, 2, 2>>],
    [var |-> "RQ_SRS_032_ClickHouse_Parquet_Query_Cache",
     name |-> "RQ.SRS-032.ClickHouse.Parquet.Query.Cache", version |-> "1.0", level |-> 3, num |-> <<4, 3, 1>>],
    [var |-> "RQ_SRS_032_ClickHouse_Parquet_Query_Cache_Performance",
     name |-> "RQ.SRS-032.ClickHouse.Parquet.Query.Cache.Performance", version |-> "1.0", level |-> 3, num |-> <<4, 3, 2>>],
    [var |-> "RQ_SRS_032_ClickHouse_Parquet_Glob",
     name |-> "RQ.SRS-032.ClickHouse.Parquet.Glob", version |-> "1.0", level |-> 3, num |-> <<4, 4, 1>>],
    [var |-> "RQ_SRS_032_ClickHouse_Parquet_Import",
     name |-> "RQ.SRS-032.ClickHouse.Parquet.Import", version |-> "1.0", level |-> 4, num |-> <<4, 5, 1>>] >>

\* Requirement records (lines 11-155)
Requirements01 ==
  << [var |-> "RQ_SRS_032_ClickHouse_Parquet",
     name |-> "RQ.SRS-032.ClickHouse.Parquet", version |-> "1.0", level |-> 3, num |-> <<4, 1, 1>>],
    [var |-> "RQ_SRS_032_ClickHouse_Parquet_SupportedVersions",
     name |-> "RQ.SRS-032.ClickHouse.Parquet.SupportedVersions", version |-> "1.0", level |-> 3, num |-> <<4, 2, 1>>],
    [var |-> "RQ_SRS_032_ClickHouse_Parquet_ClickHouseLocal",
     name |-> "RQ.SRS-032.ClickHouse.Parquet.ClickHouseLocal", version |-> "1.0", level |-> 3, num |-> <<4, 2, 2>>],
    [var |-> "RQ_SRS_032_ClickHouse_Parquet_Query_Cache",
     name |-> "RQ.SRS-032.ClickHouse.Parquet.Query.Cache", version |-> "1.0", level |-> 3, num |-> <<4, 3, 1>>],
    [var |-> "RQ_SRS_032_ClickHouse_Parquet_Query_Cache_Performance",
     name |-> "RQ.SRS-032.ClickHouse.Parquet.Query.Cache.Performance", version |-> "1.0", level |-> 3, num |-> <<4, 3, 2>>],
    [var |-> "RQ_SRS_032_ClickHouse_Parquet_Glob",
     name |-> "RQ.SRS-032.ClickHouse.Parquet.Glob", version |-> "1.0", level |-> 3, num |-> <<4, 4, 1>>],
    [var |-> "RQ_SRS_032_ClickHouse_Parquet_Import",
     name |-> "RQ.SRS-032.ClickHouse.Parquet.Import", version |-> "1.0", level |-> 4, num |-> <<4, 5, 1, 1>>] >>

\* Requirement records (lines 157-177)
Requirements02 ==
  << [var |-> "RQ_SRS_032_ClickHouse_Parquet_Import_AutoDetectParquetFileFormat",
     name |-> "RQ.SRS-032.ClickHouse.Parquet.Import.AutoDetectParquetFileFormat", version |-> "1.0", level |-> 5, num |-> <<4, 5, 1, 2, 1>>] >>

\* Requirement records (lines 179-334)
Requirements03 ==
  << [var |-> "RQ_SRS_032_ClickHouse_Parquet_DataTypes_Conversion",
     name |-> "RQ.SRS-032.ClickHouse.Parquet.DataTypes.Conversion", version |-> "1.0", level |-> 4, num |-> <<4, 5, 2, 1>>] >>

\* Requirement records (lines 336-476)
Requirements04 ==
  << [var |-> "RQ_SRS_032_ClickHouse_Parquet_DataTypes_Import",
     name |-> "RQ.SRS-032.ClickHouse.Parquet.DataTypes.Import", version |-> "1.0", level |-> 4, num |-> <<4, 5, 2, 2>>],
    [var |-> "RQ_SRS_032_ClickHouse_Parquet_DataTypes_DateUTCAdjusted",
     name |-> "RQ.SRS-032.ClickHouse.Parquet.DataTypes.DateUTCAdjusted", version |-> "1.0", level |-> 5, num |-> <<4, 5, 2, 3, 1>>],
    [var |-> "RQ_SRS_032_ClickHouse_Parquet_DataTypes_TimestampUTCAdjusted",
     name |-> "RQ.SRS-032.ClickHouse.Parquet.DataTypes.TimestampUTCAdjusted", version |-> "1.0", level |-> 5, num |-> <<4, 5, 2, 3, 2>>],
    [var |-> "RQ_SRS_032_ClickHouse_Parquet_DataTypes_TimeUTCAdjusted",
     name |-> "RQ.SRS-032.ClickHouse.Parquet.DataTypes.TimeUTCAdjusted", version |-> "1.0", level |-> 5, num |-> <<4, 5, 2, 3, 3>>],
    [var |-> "RQ_SRS_032_ClickHouse_Parquet_DataTypes_NullValues",
     name |-> "RQ.SRS-032.ClickHouse.Parquet.DataTypes.NullValues", version |-> "1.0", level |-> 5, num |-> <<4, 5, 2, 4, 1>>],
    [var |-> "RQ_SRS_032_ClickHouse_Parquet_DataTypes_ImportInto_Nullable",
     name |-> "RQ.SRS-032.ClickHouse.Parquet.DataTypes.ImportInto.Nullable", version |-> "1.0", level |-> 5, num |-> <<4, 5, 2, 4, 2>>],
    [var |-> "RQ_SRS_032_ClickHouse_Parquet_DataTypes_ImportInto_LowCardinality",
     name |-> "RQ.SRS-032.ClickHouse.Parquet.DataTypes.ImportInto.LowCardinality", version |-> "1.0", level |-> 5, num |-> <<4, 5, 2, 5, 1>>] >>

\* Requirement records (lines 478-580)
Requirements05 ==
  << [var |-> "RQ_SRS_032_ClickHouse_Parquet_DataTypes_ImportInto_Nested",
     name |-> "RQ.SRS-032.ClickHouse.Parquet.DataTypes.ImportInto.Nested", version |-> "1.0", level |-> 5, num |-> <<4, 5, 2, 6, 1>>],
    [var |-> "RQ_SRS_032_ClickHouse_Parquet_DataTypes_ImportInto_Unknown",
     name |-> "RQ.SRS-032.ClickHouse.Parquet.DataTypes.ImportInto.Unknown", version |-> "1.0", level |-> 5, num |-> <<4, 5, 2, 7, 1>>],
    [var |-> "RQ_SRS_032_ClickHouse_Parquet_DataTypes_Unsupported",
     name |-> "RQ.SRS-032.ClickHouse.Parquet.DataTypes.Unsupported", version |-> "1.0", level |-> 4, num |-> <<4, 5, 3, 1>>],
    [var |-> "RQ_SRS_032_ClickHouse_Parquet_DataTypes_Unsupported_ChunkedArray",
     name |-> "RQ.SRS-032.ClickHouse.Parquet.DataTypes.Unsupported.ChunkedArray", version |-> "1.0", level |-> 4, num |-> <<4, 5, 3, 2>>],
    [var |-> "RQ_SRS_032_ClickHouse_Parquet_Import_Projections",
     name |-> "RQ.SRS-032.ClickHouse.Parquet.Import.Projections", version |-> "1.0", level |-> 5, num |-> <<4, 5, 3, 3, 1>>],
    [var |-> "RQ_SRS_032_ClickHouse_Parquet_Import_SkipColumns",
     name |-> "RQ.SRS-032.ClickHouse.Parquet.Import.SkipColumns", version |-> "1.0", level |-> 5, num |-> <<4, 5, 3, 4, 1>>] >>

\* Requirement records (lines 582-723)
Requirements06 ==
  << [var |-> "RQ_SRS_032_ClickHouse_Parquet_Import_SkipValues",
     name |-> "RQ.SRS-032.ClickHouse.Parquet.Import.SkipValues", version |-> "1.0", level |-> 5, num |-> <<4, 5, 3, 5, 1>>],
    [var |-> "RQ_SRS_032_ClickHouse_Parquet_Import_AutoTypecast",
     name |-> "RQ.SRS-032.ClickHouse.Parquet.Import.AutoTypecast", version |-> "1.0", level |-> 5, num |-> <<4, 5, 3, 6, 1>>],
    [var |-> "RQ_SRS_032_ClickHouse_Parquet_Import_RowGroupSize",
     name |-> "RQ.SRS-032.ClickHouse.Parquet.Import.RowGroupSize", version |-> "1.0", level |-> 5, num |-> <<4, 5, 3, 7, 1>>] >>

\* Requirement records (lines 725-867)
Requirements07 ==
  << [var |-> "RQ_SRS_032_ClickHouse_Parquet_Import_DataPageSize",
     name |-> "RQ.SRS-032.ClickHouse.Parquet.Import.DataPageSize", version |-> "1.0", level |-> 5, num |-> <<4, 5, 3, 8, 1>>],
    [var |-> "RQ_SRS_032_ClickHouse_Parquet_Import_NewTable",
     name |-> "RQ.SRS-032.ClickHouse.Parquet.Import.NewTable", version |-> "1.0", level |-> 4, num |-> <<4, 5, 4, 1>>],
    [var |-> "RQ_SRS_032_ClickHouse_Parquet_Import_Nested_ArrayIntoNested",
     name |-> "RQ.SRS-032.ClickHouse.Parquet.Import.Nested.ArrayIntoNested", version |-> "1.0", level |-> 4, num |-> <<4, 5, 5, 1>>],
    [var |-> "RQ_SRS_032_ClickHouse_Parquet_DataTypes_ImportNested",
     name |-> "RQ.SRS-032.ClickHouse.Parquet.DataTypes.ImportNested", version |-> "1.0", level |-> 4, num |-> <<4, 5, 5, 2>>],
    [var |-> "RQ_SRS_032_ClickHouse_Parquet_Import_Nested_ArrayIntoNested_ImportNested",
     name |-> "RQ.SRS-032.ClickHouse.Parquet.Import.Nested.ArrayIntoNested.ImportNested", version |-> "1.0", level |-> 4, num |-> <<4, 5, 5, 3>>],
    [var |-> "RQ_SRS_032_ClickHouse_Parquet_Import_Nested_ArrayIntoNested_NotImportNested",
     name |-> "RQ.SRS-032.ClickHouse.Parquet.Import.Nested.ArrayIntoNested.NotImportNested", version |-> "1.0", level |-> 4, num |-> <<4, 5, 5, 4>>],
    [var |-> "RQ_SRS_032_ClickHouse_Parquet_Import_Nested_ArrayIntoNotNested",
     name |-> "RQ.SRS-032.ClickHouse.Parquet.Import.Nested.ArrayIntoNotNested", version |-> "1.0", level |-> 4, num |-> <<4, 5, 5, 5>>] >>

\* Requirement records (lines 869-1010)
Requirements08 ==
  << [var |-> "RQ_SRS_032_ClickHouse_Parquet_Import_Nested_NonArrayIntoNested",
     name |-> "RQ.SRS-032.ClickHouse.Parquet.Import.Nested.NonArrayIntoNested", version |-> "1.0", level |-> 4, num |-> <<4, 5, 5, 6>>],
    [var |-> "RQ_SRS_032_ClickHouse_Parquet_Import_ChunkedColumns",
     name |-> "RQ.SRS-032.ClickHouse.Parquet.Import.ChunkedColumns", version |-> "1.0", level |-> 4, num |-> <<4, 5, 6, 1>>],
    [var |-> "RQ_SRS_032_ClickHouse_Parquet_Import_Encoding_Plain",
     name |-> "RQ.SRS-032.ClickHouse.Parquet.Import.Encoding.Plain", version |-> "1.0", level |-> 5, num |-> <<4, 5, 7, 1, 1>>],
    [var |-> "RQ_SRS_032_ClickHouse_Parquet_Import_Encoding_Dictionary",
     name |-> "RQ.SRS-032.ClickHouse.Parquet.Import.Encoding.Dictionary", version |-> "1.0", level |-> 5, num |-> <<4, 5, 7, 2, 1>>],
    [var |-> "RQ_SRS_032_ClickHouse_Parquet_Import_Encoding_RunLength",
     name |-> "RQ.SRS-032.ClickHouse.Parquet.Import.Encoding.RunLength", version |-> "1.0", level |-> 5, num |-> <<4, 5, 7, 3, 1>>],
    [var |-> "RQ_SRS_032_ClickHouse_Parquet_Import_Encoding_Delta",
     name |-> "RQ.SRS-032.ClickHouse.Parquet.Import.Encoding.Delta", version |-> "1.0", level |-> 5, num |-> <<4, 5, 7, 4, 1>>],
    [var |-> "RQ_SRS_032_ClickHouse_Parquet_Import_Encoding_DeltaLengthByteArray",
     name |-> "RQ.SRS-032.ClickHouse.Parquet.Import.Encoding.DeltaLengthByteArray", version |-> "1.0", level |-> 5, num |-> <<4, 5, 7, 5, 1>>],
    [var |-> "RQ_SRS_032_ClickHouse_Parquet_Import_Encoding_DeltaStrings",
     name |-> "RQ.SRS-032.ClickHouse.Parquet.Import.Encoding.DeltaStrings", version |-> "1.0", level |-> 5, num |-> <<4, 5, 7, 6, 1>>],
    [var |-> "RQ_SRS_032_ClickHouse_Parquet_Import_Encoding_ByteStreamSplit",
     name |-> "RQ.SRS-032.ClickHouse.Parquet.Import.Encoding.ByteStreamSplit", version |-> "1.0", level |-> 4, num |-> <<4, 5, 7, 8>>] >>

\* Requirement records (lines 1012-1136)
Requirements09 ==
  << [var |-> "RQ_SRS_032_ClickHouse_Parquet_Import_Settings_ImportNested",
     name |-> "RQ.SRS-032.ClickHouse.Parquet.Import.Settings.ImportNested", version |-> "1.0", level |-> 4, num |-> <<4, 5, 8, 1>>],
    [var |-> "RQ_SRS_032_ClickHouse_Parquet_Import_Settings_CaseInsensitiveColumnMatching",
     name |-> "RQ.SRS-032.ClickHouse.Parquet.Import.Settings.CaseInsensitiveColumnMatching", version |-> "1.0", level |-> 4, num |-> <<4, 5, 8, 2>>],
    [var |-> "RQ_SRS_032_ClickHouse_Parquet_Import_Settings_AllowMissingColumns",
     name |-> "RQ.SRS-032.ClickHouse.Parquet.Import.Settings.AllowMissingColumns", version |-> "1.0", level |-> 4, num |-> <<4, 5, 8, 3>>],
    [var |-> "RQ_SRS_032_ClickHouse_Parquet_Import_Settings_SkipColumnsWithUnsupportedTypesInSchemaInference",
     name |-> "RQ.SRS-032.ClickHouse.Parquet.Import.Settings.SkipColumnsWithUnsupportedTypesInSchemaInference", version |-> "1.0", level |-> 4, num |-> <<4, 5, 8, 4>>],
    [var |-> "RQ_SRS_032_ClickHouse_Parquet_Export",
     name |-> "RQ.SRS-032.ClickHouse.Parquet.Export", version |-> "1.0", level |-> 4, num |-> <<4, 6, 8, 1>>],
    [var |-> "RQ_SRS_032_ClickHouse_Parquet_Export_Outfile_AutoDetectParquetFileFormat",
     name |-> "RQ.SRS-032.ClickHouse.Parquet.Export.Outfile.AutoDetectParquetFileFormat", version |-> "1.0", level |-> 5, num |-> <<4, 6, 8, 2, 1>>] >>

\* Requirement records (lines 1138-1273)
Requirements10 ==
  << [var |-> "RQ_SRS_032_ClickHouse_Parquet_Export_Datatypes_Supported",
     name |-> "RQ.SRS-032.ClickHouse.Parquet.Export.Datatypes.Supported", version |-> "1.0", level |-> 4, num |-> <<4, 6, 9, 1>>],
    [var |-> "RQ_SRS_032_ClickHouse_Parquet_DataTypes_ExportNullable",
     name |-> "RQ.SRS-032.ClickHouse.Parquet.DataTypes.ExportNullable", version |-> "1.0", level |-> 4, num |-> <<4, 6, 9, 2>>],
    [var |-> "RQ_SRS_032_ClickHouse_Parquet_Export_Nested",
     name |-> "RQ.SRS-032.ClickHouse.Parquet.Export.Nested", version |-> "1.0", level |-> 4, num |-> <<4, 6, 10, 1>>],
    [var |-> "RQ_SRS_032_ClickHouse_Parquet_Export_DataTypes_Nested",
     name |-> "RQ.SRS-032.ClickHouse.Parquet.Export.DataTypes.Nested", version |-> "1.0", level |-> 4, num |-> <<4, 6, 10, 2>>],
    [var |-> "RQ_SRS_032_ClickHouse_Parquet_Export_DataTypes_ChunkedColumns",
     name |-> "RQ.SRS-032.ClickHouse.Parquet.Export.DataTypes.ChunkedColumns", version |-> "1.0", level |-> 4, num |-> <<4, 6, 11, 1>>],
    [var |-> "RQ_SRS_032_ClickHouse_Export_Parquet_Join",
     name |-> "RQ.SRS-032.ClickHouse.Export.Parquet.Join", version |-> "1.0", level |-> 4, num |-> <<4, 6, 12, 1>>],
    [var |-> "RQ_SRS_032_ClickHouse_Parquet_Export_Union",
     name |-> "RQ.SRS-032.ClickHouse.Parquet.Export.Union", version |-> "1.0", level |-> 4, num |-> <<4, 6, 12, 2>>] >>

\* Requirement records (lines 1275-1416)
Requirements11 ==
  << [var |-> "RQ_SRS_032_ClickHouse_Parquet_Export_View",
     name |-> "RQ.SRS-032.ClickHouse.Parquet.Export.View", version |-> "1.0", level |-> 4, num |-> <<4, 6, 12, 3>>],
    [var |-> "RQ_SRS_032_ClickHouse_Parquet_Export_Select_MaterializedView",
     name |-> "RQ.SRS-032.ClickHouse.Parquet.Export.Select.MaterializedView", version |-> "1.0", level |-> 4, num |-> <<4, 6, 12, 4>>],
    [var |-> "RQ_SRS_032_ClickHouse_Parquet_Export_Encoding_Plain",
     name |-> "RQ.SRS-032.ClickHouse.Parquet.Export.Encoding.Plain", version |-> "1.0", level |-> 5, num |-> <<4, 6, 13, 1, 1>>],
    [var |-> "RQ_SRS_032_ClickHouse_Parquet_Export_Encoding_Dictionary",
     name |-> "RQ.SRS-032.ClickHouse.Parquet.Export.Encoding.Dictionary", version |-> "1.0", level |-> 5, num |-> <<4, 6, 13, 2, 1>>],
    [var |-> "RQ_SRS_032_ClickHouse_Parquet_Export_Encoding_RunLength",
     name |-> "RQ.SRS-032.ClickHouse.Parquet.Export.Encoding.RunLength", version |-> "1.0", level |-> 5, num |-> <<4, 6, 13, 3, 1>>],
    [var |-> "RQ_SRS_032_ClickHouse_Parquet_Export_Encoding_Delta",
     name |-> "RQ.SRS-032.ClickHouse.Parquet.Export.Encoding.Delta", version |-> "1.0", level |-> 5, num |-> <<4, 6, 13, 4, 1>>],
    [var |-> "RQ_SRS_032_ClickHouse_Parquet_Export_Encoding_DeltaLengthByteArray",
     name |-> "RQ.SRS-032.ClickHouse.Parquet.Export.Encoding.DeltaLengthByteArray", version |-> "1.0", level |-> 5, num |-> <<4, 6, 13, 5, 1>>],
    [var |-> "RQ_SRS_032_ClickHouse_Parquet_Export_Encoding_DeltaStrings",
     name |-> "RQ.SRS-032.ClickHouse.Parquet.Export.Encoding.DeltaStrings", version |-> "1.0", level |-> 5, num |-> <<4, 6, 13, 6, 1>>],
    [var |-> "RQ_SRS_032_ClickHouse_Parquet_Export_Encoding_ByteStreamSplit",
     name |-> "RQ.SRS-032.ClickHouse.Parquet.Export.Encoding.ByteStreamSplit", version |-> "1.0", level |-> 4, num |-> <<4, 6, 13, 8>>] >>

\* Requirement records (lines 1418-1563)
Requirements12 ==
  << [var |-> "RQ_SRS_032_ClickHouse_Parquet_Export_Settings_RowGroupSize",
     name |-> "RQ.SRS-032.ClickHouse.Parquet.Export.Settings.RowGroupSize", version |-> "1.0", level |-> 4, num |-> <<4, 6, 14, 1>>],
    [var |-> "RQ_SRS_032_ClickHouse_Parquet_Export_Settings_StringAsString",
     name |-> "RQ.SRS-032.ClickHouse.Parquet.Export.Settings.StringAsString", version |-> "1.0", level |-> 4, num |-> <<4, 6, 14, 2>>],
    [var |-> "RQ_SRS_032_ClickHouse_Parquet_Export_Settings_StringAsFixedByteArray",
     name |-> "RQ.SRS-032.ClickHouse.Parquet.Export.Settings.StringAsFixedByteArray", version |-> "1.0", level |-> 4, num |-> <<4, 6, 14, 3>>],
    [var |-> "RQ_SRS_032_ClickHouse_Parquet_Export_Settings_ParquetVersion",
     name |-> "RQ.SRS-032.ClickHouse.Parquet.Export.Settings.ParquetVersion", version |-> "1.0", level |-> 4, num |-> <<4, 6, 14, 4>>],
    [var |-> "RQ_SRS_032_ClickHouse_Parquet_Export_Settings_CompressionMethod",
     name |-> "RQ.SRS-032.ClickHouse.Parquet.Export.Settings.CompressionMethod", version |-> "1.0", level |-> 4, num |-> <<4, 6, 14, 5>>],
    [var |-> "RQ_SRS_032_ClickHouse_Parquet_DataTypes_TypeConversionFunction",
     name |-> "RQ.SRS-032.ClickHouse.Parquet.DataTypes.TypeConversionFunction", version |-> "1.0", level |-> 4, num |-> <<4, 6, 15, 1>>],
    [var |-> "RQ_SRS_032_ClickHouse_Parquet_Encryption",
     name |-> "RQ.SRS-032.ClickHouse.Parquet.Encryption", version |-> "1.0", level |-> 3, num |-> <<4, 7, 1>>],
    [var |-> "RQ_SRS_032_ClickHouse_Parquet_Structure",
     name |-> "RQ.SRS-032.ClickHouse.Parquet.Structure", version |-> "1.0", level |-> 3, num |-> <<4, 8, 1>>] >>

\* Requirement records (lines 1565-1708)
Requirements13 ==
  << [var |-> "RQ_SRS_032_ClickHouse_Parquet_Compression_None",
     name |-> "RQ.SRS-032.ClickHouse.Parquet.Compression.None", version |-> "1.0", level |-> 4, num |-> <<4, 9, 1, 1>>],
    [var |-> "RQ_SRS_032_ClickHouse_Parquet_Compression_Gzip",
     name |-> "RQ.SRS-032.ClickHouse.Parquet.Compression.Gzip", version |-> "1.0", level |-> 4, num |-> <<4, 9, 2, 1>>],
    [var |-> "RQ_SRS_032_ClickHouse_Parquet_Compression_Brotli",
     name |-> "RQ.SRS-032.ClickHouse.Parquet.Compression.Brotli", version |-> "1.0", level |-> 4, num |-> <<4, 9, 3, 1>>],
    [var |-> "RQ_SRS_032_ClickHouse_Parquet_Compression_Lz4",
     name |-> "RQ.SRS-032.ClickHouse.Parquet.Compression.Lz4", version |-> "1.0", level |-> 4, num |-> <<4, 9, 4, 1>>],
    [var |-> "RQ_SRS_032_ClickHouse_Parquet_Compression_Lz4Raw",
     name |-> "RQ.SRS-032.ClickHouse.Parquet.Compression.Lz4Raw", version |-> "1.0", level |-> 4, num |-> <<4, 9, 5, 1>>],
    [var |-> "RQ_SRS_032_ClickHouse_Parquet_UnsupportedCompression_Snappy",
     name |-> "RQ.SRS-032.ClickHouse.Parquet.UnsupportedCompression.Snappy", version |-> "1.0", level |-> 5, num |-> <<4, 9, 6, 1, 1>>],
    [var |-> "RQ_SRS_032_ClickHouse_Parquet_UnsupportedCompression_Lzo",
     name |-> "RQ.SRS-032.ClickHouse.Parquet.UnsupportedCompression.Lzo", version |-> "1.0", level |-> 5, num |-> <<4, 9, 6, 2, 1>>],
    [var |-> "RQ_SRS_032_ClickHouse_Parquet_UnsupportedCompression_Zstd",
     name |-> "RQ.SRS-032.ClickHouse.Parquet.UnsupportedCompression.Zstd", version |-> "1.0", level |-> 5, num |-> <<4, 9, 6, 3, 1>>],
    [var |-> "RQ_SRS_032_ClickHouse_Parquet_TableFunctions_URL",
     name |-> "RQ.SRS-032.ClickHouse.Parquet.TableFunctions.URL", version |-> "1.0", level |-> 4, num |-> <<4, 10, 1, 1>>] >>

\* Requirement records (lines 1710-1837)
Requirements14 ==
  << [var |-> "RQ_SRS_032_ClickHouse_Parquet_TableFunctions_File",
     name |-> "RQ.SRS-032.ClickHouse.Parquet.TableFunctions.File", version |-> "1.0", level |-> 4, num |-> <<4, 10, 2, 1>>],
    [var |-> "RQ_SRS_032_ClickHouse_Parquet_TableFunctions_File_AutoDetectParquetFileFormat",
     name |-> "RQ.SRS-032.ClickHouse.Parquet.TableFunctions.File.AutoDetectParquetFileFormat", version |-> "1.0", level |-> 4, num |-> <<4, 10, 2, 2>>],
    [var |-> "RQ_SRS_032_ClickHouse_Parquet_TableFunctions_S3",
     name |-> "RQ.SRS-032.ClickHouse.Parquet.TableFunctions.S3", version |-> "1.0", level |-> 4, num |-> <<4, 10, 3, 1>>],
    [var |-> "RQ_SRS_032_ClickHouse_Parquet_TableFunctions_JDBC",
     name |-> "RQ.SRS-032.ClickHouse.Parquet.TableFunctions.JDBC", version |-> "1.0", level |-> 4, num |-> <<4, 10, 4, 1>>],
    [var |-> "RQ_SRS_032_ClickHouse_Parquet_TableFunctions_ODBC",
     name |-> "RQ.SRS-032.ClickHouse.Parquet.TableFunctions.ODBC", version |-> "1.0", level |-> 4, num |-> <<4, 10, 5, 1>>],
    [var |-> "RQ_SRS_032_ClickHouse_Parquet_TableFunctions_HDFS",
     name |-> "RQ.SRS-032.ClickHouse.Parquet.TableFunctions.HDFS", version |-> "1.0", level |-> 4, num |-> <<4, 10, 6, 1>>],
    [var |-> "RQ_SRS_032_ClickHouse_Parquet_TableFunctions_Remote",
     name |-> "RQ.SRS-032.ClickHouse.Parquet.TableFunctions.Remote", version |-> "1.0", level |-> 4, num |-> <<4, 10, 7, 1>>] >>

\* Requirement records (lines 1839-1983)
Requirements15 ==
  << [var |-> "RQ_SRS_032_ClickHouse_Parquet_TableFunctions_MySQL",
     name |-> "RQ.SRS-032.ClickHouse.Parquet.TableFunctions.MySQL", version |-> "1.0", level |-> 4, num |-> <<4, 10, 8, 1>>],
    [var |-> "RQ_SRS_032_ClickHouse_Parquet_TableFunctions_PostgreSQL",
     name |-> "RQ.SRS-032.ClickHouse.Parquet.TableFunctions.PostgreSQL", version |-> "1.0", level |-> 4, num |-> <<4, 10, 9, 1>>],
    [var |-> "RQ_SRS_032_ClickHouse_Parquet_TableEngines_MergeTree_MergeTree",
     name |-> "RQ.SRS-032.ClickHouse.Parquet.TableEngines.MergeTree.MergeTree", version |-> "1.0", level |-> 4, num |-> <<4, 11, 1, 1>>],
    [var |-> "RQ_SRS_032_ClickHouse_Parquet_TableEngines_MergeTree_ReplicatedMergeTree",
     name |-> "RQ.SRS-032.ClickHouse.Parquet.TableEngines.MergeTree.ReplicatedMergeTree", version |-> "1.0", level |-> 5, num |-> <<4, 11, 1, 2, 1>>],
    [var |-> "RQ_SRS_032_ClickHouse_Parquet_TableEngines_MergeTree_ReplacingMergeTree",
     name |-> "RQ.SRS-032.ClickHouse.Parquet.TableEngines.MergeTree.ReplacingMergeTree", version |-> "1.0", level |-> 5, num |-> <<4, 11, 1, 3, 1>>],
    [var |-> "RQ_SRS_032_ClickHouse_Parquet_TableEngines_MergeTree_SummingMergeTree",
     name |-> "RQ.SRS-032.ClickHouse.Parquet.TableEngines.MergeTree.SummingMergeTree", version |-> "1.0", level |-> 5, num |-> <<4, 11, 1, 4, 1>>],
    [var |-> "RQ_SRS_032_ClickHouse_Parquet_TableEngines_MergeTree_AggregatingMergeTree",
     name |-> "RQ.SRS-032.ClickHouse.Parquet.TableEngines.MergeTree.AggregatingMergeTree", version |-> "1.0", level |-> 5, num |-> <<4, 11, 1, 5, 1>>],
    [var |-> "RQ_SRS_032_ClickHouse_Parquet_TableEngines_MergeTree_CollapsingMergeTree",
     name |-> "RQ.SRS-032.ClickHouse.Parquet.TableEngines.MergeTree.CollapsingMergeTree", version |-> "1.0", level |-> 5, num |-> <<4, 11, 1, 6, 1>>] >>

\* Requirement records (lines 1985-2127)
Requirements16 ==
  << [var |-> "RQ_SRS_032_ClickHouse_Parquet_TableEngines_MergeTree_VersionedCollapsingMergeTree",
     name |-> "RQ.SRS-032.ClickHouse.Parquet.TableEngines.MergeTree.VersionedCollapsingMergeTree", version |-> "1.0", level |-> 5, num |-> <<4, 11, 1, 7, 1>>],
    [var |-> "RQ_SRS_032_ClickHouse_Parquet_TableEngines_MergeTree_GraphiteMergeTree",
     name |-> "RQ.SRS-032.ClickHouse.Parquet.TableEngines.MergeTree.GraphiteMergeTree", version |-> "1.0", level |-> 5, num |-> <<4, 11, 1, 8, 1>>],
    [var |-> "RQ_SRS_032_ClickHouse_Parquet_TableEngines_Integration_ODBC",
     name |-> "RQ.SRS-032.ClickHouse.Parquet.TableEngines.Integration.ODBC", version |-> "1.0", level |-> 5, num |-> <<4, 11, 2, 1, 1>>],
    [var |-> "RQ_SRS_032_ClickHouse_Parquet_TableEngines_Integration_JDBC",
     name |-> "RQ.SRS-032.ClickHouse.Parquet.TableEngines.Integration.JDBC", version |-> "1.0", level |-> 5, num |-> <<4, 11, 2, 2, 1>>],
    [var |-> "RQ_SRS_032_ClickHouse_Parquet_TableEngines_Integration_MySQL",
     name |-> "RQ.SRS-032.ClickHouse.Parquet.TableEngines.Integration.MySQL", version |-> "1.0", level |-> 5, num |-> <<4, 11, 2, 3, 1>>],
    [var |-> "RQ_SRS_032_ClickHouse_Parquet_TableEngines_Integration_MongoDB",
     name |-> "RQ.SRS-032.ClickHouse.Parquet.TableEngines.Integration.MongoDB", version |-> "1.0", level |-> 5, num |-> <<4, 11, 2, 4, 1>>],
    [var |-> "RQ_SRS_032_ClickHouse_Parquet_TableEngines_Integration_HDFS",
     name |-> "RQ.SRS-032.ClickHouse.Parquet.TableEngines.Integration.HDFS", version |-> "1.0", level |-> 5, num |-> <<4, 11, 2, 5, 1>>],
    [var |-> "RQ_SRS_032_ClickHouse_Parquet_TableEngines_Integration_S3",
     name |-> "RQ.SRS-032.ClickHouse.Parquet.TableEngines.Integration.S3", version |-> "1.0", level |-> 5, num |-> <<4, 11, 2, 6, 1>>],
    [var |-> "RQ_SRS_032_ClickHouse_Parquet_TableEngines_Integration_Kafka",
     name |-> "RQ.SRS-032.ClickHouse.Parquet.TableEngines.Integration.Kafka", version |-> "1.0", level |-> 5, num |-> <<4, 11, 2, 7, 1>>] >>

\* Requirement records (lines 2129-2261)
Requirements17 ==
  << [var |-> "RQ_SRS_032_ClickHouse_Parquet_TableEngines_Integration_EmbeddedRocksDB",
     name |-> "RQ.SRS-032.ClickHouse.Parquet.TableEngines.Integration.EmbeddedRocksDB", version |-> "1.0", level |-> 5, num |-> <<4, 11, 2, 8, 1>>],
    [var |-> "RQ_SRS_032_ClickHouse_Parquet_TableEngines_Integration_PostgreSQL",
     name |-> "RQ.SRS-032.ClickHouse.Parquet.TableEngines.Integration.PostgreSQL", version |-> "1.0", level |-> 4, num |-> <<4, 11, 2, 10>>],
    [var |-> "RQ_SRS_032_ClickHouse_Parquet_TableEngines_Special_Memory",
     name |-> "RQ.SRS-032.ClickHouse.Parquet.TableEngines.Special.Memory", version |-> "1.0", level |-> 4, num |-> <<4, 11, 3, 1>>],
    [var |-> "RQ_SRS_032_ClickHouse_Parquet_TableEngines_Special_Distributed",
     name |-> "RQ.SRS-032.ClickHouse.Parquet.TableEngines.Special.Distributed", version |-> "1.0", level |-> 4, num |-> <<4, 11, 3, 2>>],
    [var |-> "RQ_SRS_032_ClickHouse_Parquet_TableEngines_Special_Dictionary",
     name |-> "RQ.SRS-032.ClickHouse.Parquet.TableEngines.Special.Dictionary", version |-> "1.0", level |-> 4, num |-> <<4, 11, 3, 3>>],
    [var |-> "RQ_SRS_032_ClickHouse_Parquet_TableEngines_Special_File",
     name |-> "RQ.SRS-032.ClickHouse.Parquet.TableEngines.Special.File", version |-> "1.0", level |-> 4, num |-> <<4, 11, 3, 4>>],
    [var |-> "RQ_SRS_032_ClickHouse_Parquet_TableEngines_Special_URL",
     name |-> "RQ.SRS-032.ClickHouse.Parquet.TableEngines.Special.URL", version |-> "1.0", level |-> 4, num |-> <<4, 11, 3, 5>>],
    [var |-> "RQ_SRS_032_ClickHouse_Parquet_Metadata_ParquetMetadataFormat",
     name |-> "RQ.SRS-032.ClickHouse.Parquet.Metadata.ParquetMetadataFormat", version |-> "1.0", level |-> 4, num |-> <<4, 12, 1, 1>>] >>

\* Requirement records (lines 2263-2289)
Requirements18 ==
  << [var |-> "RQ_SRS_032_ClickHouse_Parquet_Metadata_ParquetMetadataFormat_Output",
     name |-> "RQ.SRS-032.ClickHouse.Parquet.Metadata.ParquetMetadataFormat.Output", version |-> "1.0", level |-> 4, num |-> <<4, 12, 1, 2>>] >>

\* Requirement records (lines 2291-2430)
Requirements19 ==
  << [var |-> "RQ_SRS_032_ClickHouse_Parquet_Metadata_ParquetMetadata_Content",
     name |-> "RQ.SRS-032.ClickHouse.Parquet.Metadata.ParquetMetadata.Content", version |-> "1.0", level |-> 4, num |-> <<4, 12, 1, 3>>] >>

\* Requirement records (lines 2432-2571)
Requirements20 ==
  << [var |-> "RQ_SRS_032_ClickHouse_Parquet_Metadata_ParquetMetadata_MinMax",
     name |-> "RQ.SRS-032.ClickHouse.Parquet.Metadata.ParquetMetadata.MinMax", version |-> "1.0", level |-> 4, num |-> <<4, 12, 1, 4>>],
    [var |-> "RQ_SRS_032_ClickHouse_Parquet_Metadata_File",
     name |-> "RQ.SRS-032.ClickHouse.Parquet.Metadata.File", version |-> "1.0", level |-> 4, num |-> <<4, 12, 2, 1>>],
    [var |-> "RQ_SRS_032_ClickHouse_Parquet_Metadata_Column",
     name |-> "RQ.SRS-032.ClickHouse.Parquet.Metadata.Column", version |-> "1.0", level |-> 4, num |-> <<4, 12, 2, 2>>],
    [var |-> "RQ_SRS_032_ClickHouse_Parquet_Metadata_Header",
     name |-> "RQ.SRS-032.ClickHouse.Parquet.Metadata.Header", version |-> "1.0", level |-> 4, num |-> <<4, 12, 2, 3>>],
    [var |-> "RQ_SRS_032_ClickHouse_Parquet_ErrorRecovery_Corrupt_Metadata_MagicNumber",
     name |-> "RQ.SRS-032.ClickHouse.Parquet.ErrorRecovery.Corrupt.Metadata.MagicNumber", version |-> "1.0", level |-> 3, num |-> <<4, 13, 1>>],
    [var |-> "RQ_SRS_032_ClickHouse_Parquet_ErrorRecovery_Corrupt_Metadata_File",
     name |-> "RQ.SRS-032.ClickHouse.Parquet.ErrorRecovery.Corrupt.Metadata.File", version |-> "1.0", level |-> 3, num |-> <<4, 13, 2>>],
    [var |-> "RQ_SRS_032_ClickHouse_Parquet_ErrorRecovery_Corrupt_Metadata_Column",
     name |-> "RQ.SRS-032.ClickHouse.Parquet.ErrorRecovery.Corrupt.Metadata.Column", version |-> "1.0", level |-> 3, num |-> <<4, 13, 3>>],
    [var |-> "RQ_SRS_032_ClickHouse_Parquet_ErrorRecovery_Corrupt_Metadata_PageHeader",
     name |-> "RQ.SRS-032.ClickHouse.Parquet.ErrorRecovery.Corrupt.Metadata.PageHeader", version |-> "1.0", level |-> 3, num |-> <<4, 13, 4>>] >>

\* Requirement records (lines 2573-2722)
Requirements21 ==
  << [var |-> "RQ_SRS_032_ClickHouse_Parquet_ErrorRecovery_Corrupt_Metadata_PageData",
     name |-> "RQ.SRS-032.ClickHouse.Parquet.ErrorRecovery.Corrupt.Metadata.PageData", version |-> "1.0", level |-> 3, num |-> <<4, 13, 5>>],
    [var |-> "RQ_SRS_032_ClickHouse_Parquet_ErrorRecovery_Corrupt_Metadata_Checksum",
     name |-> "RQ.SRS-032.ClickHouse.Parquet.ErrorRecovery.Corrupt.Metadata.Checksum", version |-> "1.0", level |-> 3, num |-> <<4, 13, 6>>],
    [var |-> "RQ_SRS_032_ClickHouse_Parquet_ErrorRecovery_Corrupt_Values",
     name |-> "RQ.SRS-032.ClickHouse.Parquet.ErrorRecovery.Corrupt.Values", version |-> "1.0", level |-> 3, num |-> <<4, 13, 7>>],
    [var |-> "RQ_SRS_032_ClickHouse_Parquet_ErrorRecovery_Corrupt_Values_Date",
     name |-> "RQ.SRS-032.ClickHouse.Parquet.ErrorRecovery.Corrupt.Values.Date", version |-> "1.0", level |-> 4, num |-> <<4, 13, 7, 1>>],
    [var |-> "RQ_SRS_032_ClickHouse_Parquet_ErrorRecovery_Corrupt_Values_Int",
     name |-> "RQ.SRS-032.ClickHouse.Parquet.ErrorRecovery.Corrupt.Values.Int", version |-> "1.0", level |-> 4, num |-> <<4, 13, 7, 2>>],
    [var |-> "RQ_SRS_032_ClickHouse_Parquet_ErrorRecovery_Corrupt_Values_BigInt",
     name |-> "RQ.SRS-032.ClickHouse.Parquet.ErrorRecovery.Corrupt.Values.BigInt", version |-> "1.0", level |-> 4, num |-> <<4, 13, 7, 3>>],
    [var |-> "RQ_SRS_032_ClickHouse_Parquet_ErrorRecovery_Corrupt_Values_SmallInt",
     name |-> "RQ.SRS-032.ClickHouse.Parquet.ErrorRecovery.Corrupt.Values.SmallInt", version |-> "1.0", level |-> 4, num |-> <<4, 13, 7, 4>>],
    [var |-> "RQ_SRS_032_ClickHouse_Parquet_ErrorRecovery_Corrupt_Values_TinyInt",
     name |-> "RQ.SRS-032.ClickHouse.Parquet.ErrorRecovery.Corrupt.Values.TinyInt", version |-> "1.0", level |-> 4, num |-> <<4, 13, 7, 5>>],
    [var |-> "RQ_SRS_032_ClickHouse_Parquet_ErrorRecovery_Corrupt_Values_UInt",
     name |-> "RQ.SRS-032.ClickHouse.Parquet.ErrorRecovery.Corrupt.Values.UInt", version |-> "1.0", level |-> 4, num |-> <<4, 13, 7, 6>>] >>

\* Requirement records (lines 2724-2867)
Requirements22 ==
  << [var |-> "RQ_SRS_032_ClickHouse_Parquet_ErrorRecovery_Corrupt_Values_UBigInt",
     name |-> "RQ.SRS-032.ClickHouse.Parquet.ErrorRecovery.Corrupt.Values.UBigInt", version |-> "1.0", level |-> 4, num |-> <<4, 13, 7, 7>>],
    [var |-> "RQ_SRS_032_ClickHouse_Parquet_ErrorRecovery_Corrupt_Values_USmallInt",
     name |-> "RQ.SRS-032.ClickHouse.Parquet.ErrorRecovery.Corrupt.Values.USmallInt", version |-> "1.0", level |-> 4, num |-> <<4, 13, 7, 8>>],
    [var |-> "RQ_SRS_032_ClickHouse_Parquet_ErrorRecovery_Corrupt_Values_UTinyInt",
     name |-> "RQ.SRS-032.ClickHouse.Parquet.ErrorRecovery.Corrupt.Values.UTinyInt", version |-> "1.0", level |-> 4, num |-> <<4, 13, 7, 9>>],
    [var |-> "RQ_SRS_032_ClickHouse_Parquet_ErrorRecovery_Corrupt_Values_TimestampUS",
     name |-> "RQ.SRS-032.ClickHouse.Parquet.ErrorRecovery.Corrupt.Values.TimestampUS", version |-> "1.0", level |-> 4, num |-> <<4, 13, 7, 10>>],
    [var |-> "RQ_SRS_032_ClickHouse_Parquet_ErrorRecovery_Corrupt_Values_TimestampMS",
     name |-> "RQ.SRS-032.ClickHouse.Parquet.ErrorRecovery.Corrupt.Values.TimestampMS", version |-> "1.0", level |-> 4, num |-> <<4, 13, 7, 11>>],
    [var |-> "RQ_SRS_032_ClickHouse_Parquet_ErrorRecovery_Corrupt_Values_Bool",
     name |-> "RQ.SRS-032.ClickHouse.Parquet.ErrorRecovery.Corrupt.Values.Bool", version |-> "1.0", level |-> 4, num |-> <<4, 13, 7, 12>>],
    [var |-> "RQ_SRS_032_ClickHouse_Parquet_ErrorRecovery_Corrupt_Values_Float",
     name |-> "RQ.SRS-032.ClickHouse.Parquet.ErrorRecovery.Corrupt.Values.Float", version |-> "1.0", level |-> 4, num |-> <<4, 13, 7, 13>>],
    [var |-> "RQ_SRS_032_ClickHouse_Parquet_ErrorRecovery_Corrupt_Values_Double",
     name |-> "RQ.SRS-032.ClickHouse.Parquet.ErrorRecovery.Corrupt.Values.Double", version |-> "1.0", level |-> 4, num |-> <<4, 13, 7, 14>>],
    [var |-> "RQ_SRS_032_ClickHouse_Parquet_ErrorRecovery_Corrupt_Values_TimeMS",
     name |-> "RQ.SRS-032.ClickHouse.Parquet.ErrorRecovery.Corrupt.Values.TimeMS", version |-> "1.0", level |-> 4, num |-> <<4, 13, 7, 15>>] >>

\* Requirement records (lines 2869-3018)
Requirements23 ==
  << [var |-> "RQ_SRS_032_ClickHouse_Parquet_ErrorRecovery_Corrupt_Values_TimeUS",
     name |-> "RQ.SRS-032.ClickHouse.Parquet.ErrorRecovery.Corrupt.Values.TimeUS", version |-> "1.0", level |-> 4, num |-> <<4, 13, 7, 16>>],
    [var |-> "RQ_SRS_032_ClickHouse_Parquet_ErrorRecovery_Corrupt_Values_TimeNS",
     name |-> "RQ.SRS-032.ClickHouse.Parquet.ErrorRecovery.Corrupt.Values.TimeNS", version |-> "1.0", level |-> 4, num |-> <<4, 13, 7, 17>>],
    [var |-> "RQ_SRS_032_ClickHouse_Parquet_ErrorRecovery_Corrupt_Values_String",
     name |-> "RQ.SRS-032.ClickHouse.Parquet.ErrorRecovery.Corrupt.Values.String", version |-> "1.0", level |-> 4, num |-> <<4, 13, 7, 18>>],
    [var |-> "RQ_SRS_032_ClickHouse_Parquet_ErrorRecovery_Corrupt_Values_Binary",
     name |-> "RQ.SRS-032.ClickHouse.Parquet.ErrorRecovery.Corrupt.Values.Binary", version |-> "1.0", level |-> 4, num |-> <<4, 13, 7, 19>>],
    [var |-> "RQ_SRS_032_ClickHouse_Parquet_ErrorRecovery_Corrupt_Values_FixedLengthByteArray",
     name |-> "RQ.SRS-032.ClickHouse.Parquet.ErrorRecovery.Corrupt.Values.FixedLengthByteArray", version |-> "1.0", level |-> 4, num |-> <<4, 13, 7, 20>>],
    [var |-> "RQ_SRS_032_ClickHouse_Parquet_ErrorRecovery_Corrupt_Values_Decimal",
     name |-> "RQ.SRS-032.ClickHouse.Parquet.ErrorRecovery.Corrupt.Values.Decimal", version |-> "1.0", level |-> 4, num |-> <<4, 13, 7, 21>>],
    [var |-> "RQ_SRS_032_ClickHouse_Parquet_ErrorRecovery_Corrupt_Values_List",
     name |-> "RQ.SRS-032.ClickHouse.Parquet.ErrorRecovery.Corrupt.Values.List", version |-> "1.0", level |-> 4, num |-> <<4, 13, 7, 22>>],
    [var |-> "RQ_SRS_032_ClickHouse_Parquet_ErrorRecovery_Corrupt_Values_Struct",
     name |-> "RQ.SRS-032.ClickHouse.Parquet.ErrorRecovery.Corrupt.Values.Struct", version |-> "1.0", level |-> 4, num |-> <<4, 13, 7, 23>>],
    [var |-> "RQ_SRS_032_ClickHouse_Parquet_ErrorRecovery_Corrupt_Values_Map",
     name |-> "RQ.SRS-032.ClickHouse.Parquet.ErrorRecovery.Corrupt.Values.Map", version |-> "1.0", level |-> 4, num |-> <<4, 13, 7, 24>>] >>

-----------------------------------------------------------------------------
(* Specification(headings=(Heading(name, level, num), ...)). *)

\* Heading entries (lines 3037-3184)
Headings01 ==
  << [level |-> 1, num |-> <<1>>, name |-> "Revision History"],
    [level |-> 1, num |-> <<2>>, name |-> "Introduction"],
    [level |-> 1, num |-> <<3>>, name |-> "Feature Diagram"],
    [level |-> 1, num |-> <<4>>, name |-> "Requirements"],
    [level |-> 2, num |-> <<4, 1>>, name |-> "Working With Parquet"],
    [level |-> 3, num |-> <<4, 1, 1>>, name |-> "RQ.SRS-032.ClickHouse.Parquet"],
    [level |-> 2, num |-> <<4, 2>>, name |-> "Supported Parquet Versions"],
    [level |-> 3, num |-> <<4, 2, 1>>, name |-> "RQ.SRS-032.ClickHouse.Parquet.SupportedVersions"],
    [level |-> 3, num |-> <<4, 2, 2>>, name |-> "RQ.SRS-032.ClickHouse.Parquet.ClickHouseLocal"],
    [level |-> 2, num |-> <<4, 3>>, name |-> "Query Cache"],
    [level |-> 3, num |-> <<4, 3, 1>>, name |-> "RQ.SRS-032.ClickHouse.Parquet.Query.Cache"],
    [level |-> 3, num |-> <<4, 3, 2>>, name |-> "RQ.SRS-032.ClickHouse.Parquet.Query.Cache.Performance"],
    [level |-> 2, num |-> <<4, 4>>, name |-> "Glob Patterns"],
    [level |-> 3, num |-> <<4, 4, 1>>, name |-> "RQ.SRS-032.ClickHouse.Parquet.Glob"],
    [level |-> 2, num |-> <<4, 5>>, name |-> "Import from Parquet Files"],
    [level |-> 4, num |-> <<4, 5, 1, 1>>, name |-> "RQ.SRS-032.ClickHouse.Parquet.Import"],
    [level |-> 4, num |-> <<4, 5, 1, 2>>, name |-> "Auto Detect Parquet File When Importing"],
    [level |-> 5, num |-> <<4, 5, 1, 2, 1>>, name |-> "RQ.SRS-032.ClickHouse.Parquet.Import.AutoDetectParquetFileFormat"],
    [level |-> 3, num |-> <<4, 5, 2>>, name |-> "Supported Datatypes"],
    [level |-> 4, num |-> <<4, 5, 2, 1>>, name |-> "RQ.SRS-032.ClickHouse.Parquet.DataTypes.Conversion"],
    [level |-> 4, num |-> <<4, 5, 2, 2>>, name |-> "RQ.SRS-032.ClickHouse.Parquet.DataTypes.Import"],
    [level |-> 4, num |-> <<4, 5, 2, 3>>, name |-> "UTCAdjusted"],
    [level |-> 5, num |-> <<4, 5, 2, 3, 1>>, name |-> "RQ.SRS-032.ClickHouse.Parquet.DataTypes.DateUTCAdjusted"],
    [level |-> 5, num |-> <<4, 5, 2, 3, 2>>, name |-> "RQ.SRS-032.ClickHouse.Parquet.DataTypes.TimestampUTCAdjusted"],
    [level |-> 5, num |-> <<4, 5, 2, 3, 3>>, name |-> "RQ.SRS-032.ClickHouse.Parquet.DataTypes.TimeUTCAdjusted"],
    [level |-> 4, num |-> <<4, 5, 2, 4>>, name |-> "Nullable"],
    [level |-> 5, num |-> <<4, 5, 2, 4, 1>>, name |-> "RQ.SRS-032.ClickHouse.Parquet.DataTypes.NullValues"],
    [level |-> 5, num |-> <<4, 5, 2, 4, 2>>, name |-> "RQ.SRS-032.ClickHouse.Parquet.DataTypes.ImportInto.Nullable"],
    [level |-> 4, num |-> <<4, 5, 2, 5>>, name |-> "LowCardinality"],
    [level |-> 5, num |-> <<4, 5, 2, 5, 1>>, name |-> "RQ.SRS-032.ClickHouse.Parquet.DataTypes.ImportInto.LowCardinality"],
    [level |-> 4, num |-> <<4, 5, 2, 6>>, name |-> "Nested"],
    [level |-> 5, num |-> <<4, 5, 2, 6, 1>>, name |-> "RQ.SRS-032.ClickHouse.Parquet.DataTypes.ImportInto.Nested"],
    [level |-> 4, num |-> <<4, 5, 2, 7>>, name |-> "UNKNOWN"],
    [level |-> 5, num |-> <<4, 5, 2, 7, 1>>, name |-> "RQ.SRS-032.ClickHouse.Parquet.DataTypes.ImportInto.Unknown"],
    [level |-> 3, num |-> <<4, 5, 3>>, name |-> "Unsupported Datatypes"],
    [level |-> 4, num |-> <<4, 5, 3, 1>>, name |-> "RQ.SRS-032.ClickHouse.Parquet.DataTypes.Unsupported"],
    [level |-> 4, num |-> <<4, 5, 3, 2>>, name |-> "RQ.SRS-032.ClickHouse.Parquet.DataTypes.Unsupported.ChunkedArray"],
    [level |-> 4, num |-> <<4, 5, 3, 3>>, name |-> "Projections"],
    [level |-> 5, num |-> <<4, 5, 3, 3, 1>>, name |-> "RQ.SRS-032.ClickHouse.Parquet.Import.Projections"],
    [level |-> 4, num |-> <<4, 5, 3, 4>>, name |-> "Skip Columns"],
    [level |-> 5, num |-> <<4, 5, 3, 4, 1>>, name |-> "RQ.SRS-032.ClickHouse.Parquet.Import.SkipColumns"],
    [level |-> 4, num |-> <<4, 5, 3, 5>>, name |-> "Skip Values"],
    [level |-> 5, num |-> <<4, 5, 3, 5, 1>>, name |-> "RQ.SRS-032.ClickHouse.Parquet.Import.SkipValues"],
    [level |-> 4, num |-> <<4, 5, 3, 6>>, name |-> "Auto Typecast"],
    [level |-> 5, num |-> <<4, 5, 3, 6, 1>>, name |-> "RQ.SRS-032.ClickHouse.Parquet.Import.AutoTypecast"],
    [level |-> 4, num |-> <<4, 5, 3, 7>>, name |-> "Row Group Size"],
    [level |-> 5, num |-> <<4, 5, 3, 7, 1>>, name |-> "RQ.SRS-032.ClickHouse.Parquet.Import.RowGroupSize"],
    [level |-> 4, num |-> <<4, 5, 3, 8>>, name |-> "Data Page Size"],
    [level |-> 5, num |-> <<4, 5, 3, 8, 1>>, name |-> "RQ.SRS-032.ClickHouse.Parquet.Import.DataPageSize"],
    [level |-> 3, num |-> <<4, 5, 4>>, name |-> "Import Into New Table"],
    [level |-> 4, num |-> <<4, 5, 4, 1>>, name |-> "RQ.SRS-032.ClickHouse.Parquet.Import.NewTable"],
    [level |-> 3, num |-> <<4, 5, 5>>, name |-> "Import Nested Types"],
    [level |-> 4, num |-> <<4, 5, 5, 1>>, name |-> "RQ.SRS-032.ClickHouse.Parquet.Import.Nested.ArrayIntoNested"],
    [level |-> 4, num |-> <<4, 5, 5, 2>>, name |-> "RQ.SRS-032.ClickHouse.Parquet.DataTypes.ImportNested"] >>

\* Heading entries (lines 3185-3331)
Headings02 ==
  << [level |-> 4, num |-> <<4, 5, 5, 3>>, name |-> "RQ.SRS-032.ClickHouse.Parquet.Import.Nested.ArrayIntoNested.ImportNested"],
    [level |-> 4, num |-> <<4, 5, 5, 4>>, name |-> "RQ.SRS-032.ClickHouse.Parquet.Import.Nested.ArrayIntoNested.NotImportNested"],
    [level |-> 4, num |-> <<4, 5, 5, 5>>, name |-> "RQ.SRS-032.ClickHouse.Parquet.Import.Nested.ArrayIntoNotNested"],
    [level |-> 4, num |-> <<4, 5, 5, 6>>, name |-> "RQ.SRS-032.ClickHouse.Parquet.Import.Nested.NonArrayIntoNested"],
    [level |-> 3, num |-> <<4, 5, 6>>, name |-> "Import Chunked Columns"],
    [level |-> 4, num |-> <<4, 5, 6, 1>>, name |-> "RQ.SRS-032.ClickHouse.Parquet.Import.ChunkedColumns"],
    [level |-> 3, num |-> <<4, 5, 7>>, name |-> "Import Encoded"],
    [level |-> 4, num |-> <<4, 5, 7, 1>>, name |-> "Plain (Import)"],
    [level |-> 5, num |-> <<4, 5, 7, 1, 1>>, name |-> "RQ.SRS-032.ClickHouse.Parquet.Import.Encoding.Plain"],
    [level |-> 4, num |-> <<4, 5, 7, 2>>, name |-> "Dictionary (Import)"],
    [level |-> 5, num |-> <<4, 5, 7, 2, 1>>, name |-> "RQ.SRS-032.ClickHouse.Parquet.Import.Encoding.Dictionary"],
    [level |-> 4, num |-> <<4, 5, 7, 3>>, name |-> "Run Length Encoding (Import)"],
    [level |-> 5, num |-> <<4, 5, 7, 3, 1>>, name |-> "RQ.SRS-032.ClickHouse.Parquet.Import.Encoding.RunLength"],
    [level |-> 4, num |-> <<4, 5, 7, 4>>, name |-> "Delta (Import)"],
    [level |-> 5, num |-> <<4, 5, 7, 4, 1>>, name |-> "RQ.SRS-032.ClickHouse.Parquet.Import.Encoding.Delta"],
    [level |-> 4, num |-> <<4, 5, 7, 5>>, name |-> "Delta-length byte array (Import)"],
    [level |-> 5, num |-> <<4, 5, 7, 5, 1>>, name |-> "RQ.SRS-032.ClickHouse.Parquet.Import.Encoding.DeltaLengthByteArray"],
    [level |-> 4, num |-> <<4, 5, 7, 6>>, name |-> "Delta Strings (Import)"],
    [level |-> 5, num |-> <<4, 5, 7, 6, 1>>, name |-> "RQ.SRS-032.ClickHouse.Parquet.Import.Encoding.DeltaStrings"],
    [level |-> 4, num |-> <<4, 5, 7, 7>>, name |-> "Byte Stream Split (Import)"],
    [level |-> 4, num |-> <<4, 5, 7, 8>>, name |-> "RQ.SRS-032.ClickHouse.Parquet.Import.Encoding.ByteStreamSplit"],
    [level |-> 3, num |-> <<4, 5, 8>>, name |-> "Import Settings"],
    [level |-> 4, num |-> <<4, 5, 8, 1>>, name |-> "RQ.SRS-032.ClickHouse.Parquet.Import.Settings.ImportNested"],
    [level |-> 4, num |-> <<4, 5, 8, 2>>, name |-> "RQ.SRS-032.ClickHouse.Parquet.Import.Settings.CaseInsensitiveColumnMatching"],
    [level |-> 4, num |-> <<4, 5, 8, 3>>, name |-> "RQ.SRS-032.ClickHouse.Parquet.Import.Settings.AllowMissingColumns"],
    [level |-> 4, num |-> <<4, 5, 8, 4>>, name |-> "RQ.SRS-032.ClickHouse.Parquet.Import.Settings.SkipColumnsWithUnsupportedTypesInSchemaInference"],
    [level |-> 2, num |-> <<4, 6>>, name |-> "Export from Parquet Files"],
    [level |-> 4, num |-> <<4, 6, 8, 1>>, name |-> "RQ.SRS-032.ClickHouse.Parquet.Export"],
    [level |-> 4, num |-> <<4, 6, 8, 2>>, name |-> "Auto Detect Parquet File When Exporting"],
    [level |-> 5, num |-> <<4, 6, 8, 2, 1>>, name |-> "RQ.SRS-032.ClickHouse.Parquet.Export.Outfile.AutoDetectParquetFileFormat"],
    [level |-> 3, num |-> <<4, 6, 9>>, name |-> "Supported Data types"],
    [level |-> 4, num |-> <<4, 6, 9, 1>>, name |-> "RQ.SRS-032.ClickHouse.Parquet.Export.Datatypes.Supported"],
    [level |-> 4, num |-> <<4, 6, 9, 2>>, name |-> "RQ.SRS-032.ClickHouse.Parquet.DataTypes.ExportNullable"],
    [level |-> 3, num |-> <<4, 6, 10>>, name |-> "Working With Nested Types Export"],
    [level |-> 4, num |-> <<4, 6, 10, 1>>, name |-> "RQ.SRS-032.ClickHouse.Parquet.Export.Nested"],
    [level |-> 4, num |-> <<4, 6, 10, 2>>, name |-> "RQ.SRS-032.ClickHouse.Parquet.Export.DataTypes.Nested"],
    [level |-> 3, num |-> <<4, 6, 11>>, name |-> "Exporting Chunked Columns"],
    [level |-> 4, num |-> <<4, 6, 11, 1>>, name |-> "RQ.SRS-032.ClickHouse.Parquet.Export.DataTypes.ChunkedColumns"],
    [level |-> 3, num |-> <<4, 6, 12>>, name |-> "Query Types"],
    [level |-> 4, num |-> <<4, 6, 12, 1>>, name |-> "RQ.SRS-032.ClickHouse.Export.Parquet.Join"],
    [level |-> 4, num |-> <<4, 6, 12, 2>>, name |-> "RQ.SRS-032.ClickHouse.Parquet.Export.Union"],
    [level |-> 4, num |-> <<4, 6, 12, 3>>, name |-> "RQ.SRS-032.ClickHouse.Parquet.Export.View"],
    [level |-> 4, num |-> <<4, 6, 12, 4>>, name |-> "RQ.SRS-032.ClickHouse.Parquet.Export.Select.MaterializedView"],
    [level |-> 3, num |-> <<4, 6, 13>>, name |-> "Export Encoded"],
    [level |-> 4, num |-> <<4, 6, 13, 1>>, name |-> "Plain (Export)"],
    [level |-> 5, num |-> <<4, 6, 13, 1, 1>>, name |-> "RQ.SRS-032.ClickHouse.Parquet.Export.Encoding.Plain"],
    [level |-> 4, num |-> <<4, 6, 13, 2>>, name |-> "Dictionary (Export)"] >>

\* Heading entries (lines 3332-3481)
Headings03 ==
  << [level |-> 5, num |-> <<4, 6, 13, 2, 1>>, name |-> "RQ.SRS-032.ClickHouse.Parquet.Export.Encoding.Dictionary"],
    [level |-> 4, num |-> <<4, 6, 13, 3>>, name |-> "Run Length Encoding (Export)"],
    [level |-> 5, num |-> <<4, 6, 13, 3, 1>>, name |-> "RQ.SRS-032.ClickHouse.Parquet.Export.Encoding.RunLength"],
    [level |-> 4, num |-> <<4, 6, 13, 4>>, name |-> "Delta (Export)"],
    [level |-> 5, num |-> <<4, 6, 13, 4, 1>>, name |-> "RQ.SRS-032.ClickHouse.Parquet.Export.Encoding.Delta"],
    [level |-> 4, num |-> <<4, 6, 13, 5>>, name |-> "Delta-length byte array (Export)"],
    [level |-> 5, num |-> <<4, 6, 13, 5, 1>>, name |-> "RQ.SRS-032.ClickHouse.Parquet.Export.Encoding.DeltaLengthByteArray"],
    [level |-> 4, num |-> <<4, 6, 13, 6>>, name |-> "Delta Strings (Export)"],
    [level |-> 5, num |-> <<4, 6, 13, 6, 1>>, name |-> "RQ.SRS-032.ClickHouse.Parquet.Export.Encoding.DeltaStrings"],
    [level |-> 4, num |-> <<4, 6, 13, 7>>, name |-> "Byte Stream Split (Export)"],
    [level |-> 4, num |-> <<4, 6, 13, 8>>, name |-> "RQ.SRS-032.ClickHouse.Parquet.Export.Encoding.ByteStreamSplit"],
    [level |-> 3, num |-> <<4, 6, 14>>, name |-> "Export Settings"],
    [level |-> 4, num |-> <<4, 6, 14, 1>>, name |-> "RQ.SRS-032.ClickHouse.Parquet.Export.Settings.RowGroupSize"],
    [level |-> 4, num |-> <<4, 6, 14, 2>>, name |-> "RQ.SRS-032.ClickHouse.Parquet.Export.Settings.StringAsString"],
    [level |-> 4, num |-> <<4, 6, 14, 3>>, name |-> "RQ.SRS-032.ClickHouse.Parquet.Export.Settings.StringAsFixedByteArray"],
    [level |-> 4, num |-> <<4, 6, 14, 4>>, name |-> "RQ.SRS-032.ClickHouse.Parquet.Export.Settings.ParquetVersion"],
    [level |-> 4, num |-> <<4, 6, 14, 5>>, name |-> "RQ.SRS-032.ClickHouse.Parquet.Export.Settings.CompressionMethod"],
    [level |-> 3, num |-> <<4, 6, 15>>, name |-> "Type Conversion"],
    [level |-> 4, num |-> <<4, 6, 15, 1>>, name |-> "RQ.SRS-032.ClickHouse.Parquet.DataTypes.TypeConversionFunction"],
    [level |-> 2, num |-> <<4, 7>>, name |-> "Parquet Encryption"],
    [level |-> 3, num |-> <<4, 7, 1>>, name |-> "RQ.SRS-032.ClickHouse.Parquet.Encryption"],
    [level |-> 2, num |-> <<4, 8>>, name |-> "DESCRIBE Parquet"],
    [level |-> 3, num |-> <<4, 8, 1>>, name |-> "RQ.SRS-032.ClickHouse.Parquet.Structure"],
    [level |-> 2, num |-> <<4, 9>>, name |-> "Compression"],
    [level |-> 3, num |-> <<4, 9, 1>>, name |-> "None"],
    [level |-> 4, num |-> <<4, 9, 1, 1>>, name |-> "RQ.SRS-032.ClickHouse.Parquet.Compression.None"],
    [level |-> 3, num |-> <<4, 9, 2>>, name |-> "Gzip"],
    [level |-> 4, num |-> <<4, 9, 2, 1>>, name |-> "RQ.SRS-032.ClickHouse.Parquet.Compression.Gzip"],
    [level |-> 3, num |-> <<4, 9, 3>>, name |-> "Brotli"],
    [level |-> 4, num |-> <<4, 9, 3, 1>>, name |-> "RQ.SRS-032.ClickHouse.Parquet.Compression.Brotli"],
    [level |-> 3, num |-> <<4, 9, 4>>, name |-> "Lz4"],
    [level |-> 4, num |-> <<4, 9, 4, 1>>, name |-> "RQ.SRS-032.ClickHouse.Parquet.Compression.Lz4"],
    [level |-> 3, num |-> <<4, 9, 5>>, name |-> "Lz4Raw"],
    [level |-> 4, num |-> <<4, 9, 5, 1>>, name |-> "RQ.SRS-032.ClickHouse.Parquet.Compression.Lz4Raw"],
    [level |-> 3, num |-> <<4, 9, 6>>, name |-> "Unsupported Compression"],
    [level |-> 4, num |-> <<4, 9, 6, 1>>, name |-> "Snappy"],
    [level |-> 5, num |-> <<4, 9, 6, 1, 1>>, name |-> "RQ.SRS-032.ClickHouse.Parquet.UnsupportedCompression.Snappy"],
    [level |-> 4, num |-> <<4, 9, 6, 2>>, name |-> "Lzo"],
    [level |-> 5, num |-> <<4, 9, 6, 2, 1>>, name |-> "RQ.SRS-032.ClickHouse.Parquet.UnsupportedCompression.Lzo"],
    [level |-> 4, num |-> <<4, 9, 6, 3>>, name |-> "Zstd"],
    [level |-> 5, num |-> <<4, 9, 6, 3, 1>>, name |-> "RQ.SRS-032.ClickHouse.Parquet.UnsupportedCompression.Zstd"],
    [level |-> 2, num |-> <<4, 10>>, name |-> "Table Functions"],
    [level |-> 3, num |-> <<4, 10, 1>>, name |-> "URL"],
    [level |-> 4, num |-> <<4, 10, 1, 1>>, name |-> "RQ.SRS-032.ClickHouse.Parquet.TableFunctions.URL"],
    [level |-> 3, num |-> <<4, 10, 2>>, name |-> "File"],
    [level |-> 4, num |-> <<4, 10, 2, 1>>, name |-> "RQ.SRS-032.ClickHouse.Parquet.TableFunctions.File"],
    [level |-> 4, num |-> <<4, 10, 2, 2>>, name |-> "RQ.SRS-032.ClickHouse.Parquet.TableFunctions.File.AutoDetectParquetFileFormat"],
    [level |-> 3, num |-> <<4, 10, 3>>, name |-> "S3"],
    [level |-> 4, num |-> <<4, 10, 3, 1>>, name |-> "RQ.SRS-032.ClickHouse.Parquet.TableFunctions.S3"],
    [level |-> 3, num |-> <<4, 10, 4>>, name |-> "JDBC"],
    [level |-> 4, num |-> <<4, 10, 4, 1>>, name |-> "RQ.SRS-032.ClickHouse.Parquet.TableFunctions.JDBC"],
    [level |-> 3, num |-> <<4, 10, 5>>, name |-> "ODBC"] >>

\* Heading entries (lines 3482-3630)
Headings04 ==
  << [level |-> 4, num |-> <<4, 10, 5, 1>>, name |-> "RQ.SRS-032.ClickHouse.Parquet.TableFunctions.ODBC"],
    [level |-> 3, num |-> <<4, 10, 6>>, name |-> "HDFS"],
    [level |-> 4, num |-> <<4, 10, 6, 1>>, name |-> "RQ.SRS-032.ClickHouse.Parquet.TableFunctions.HDFS"],
    [level |-> 3, num |-> <<4, 10, 7>>, name |-> "Remote"],
    [level |-> 4, num |-> <<4, 10, 7, 1>>, name |-> "RQ.SRS-032.ClickHouse.Parquet.TableFunctions.Remote"],
    [level |-> 3, num |-> <<4, 10, 8>>, name |-> "MySQL"],
    [level |-> 4, num |-> <<4, 10, 8, 1>>, name |-> "RQ.SRS-032.ClickHouse.Parquet.TableFunctions.MySQL"],
    [level |-> 3, num |-> <<4, 10, 9>>, name |-> "PostgreSQL"],
    [level |-> 4, num |-> <<4, 10, 9, 1>>, name |-> "RQ.SRS-032.ClickHouse.Parquet.TableFunctions.PostgreSQL"],
    [level |-> 2, num |-> <<4, 11>>, name |-> "Table Engines"],
    [level |-> 3, num |-> <<4, 11, 1>>, name |-> "MergeTree"],
    [level |-> 4, num |-> <<4, 11, 1, 1>>, name |-> "RQ.SRS-032.ClickHouse.Parquet.TableEngines.MergeTree.MergeTree"],
    [level |-> 4, num |-> <<4, 11, 1, 2>>, name |-> "ReplicatedMergeTree"],
    [level |-> 5, num |-> <<4, 11, 1, 2, 1>>, name |-> "RQ.SRS-032.ClickHouse.Parquet.TableEngines.MergeTree.ReplicatedMergeTree"],
    [level |-> 4, num |-> <<4, 11, 1, 3>>, name |-> "ReplacingMergeTree"],
    [level |-> 5, num |-> <<4, 11, 1, 3, 1>>, name |-> "RQ.SRS-032.ClickHouse.Parquet.TableEngines.MergeTree.ReplacingMergeTree"],
    [level |-> 4, num |-> <<4, 11, 1, 4>>, name |-> "SummingMergeTree"],
    [level |-> 5, num |-> <<4, 11, 1, 4, 1>>, name |-> "RQ.SRS-032.ClickHouse.Parquet.TableEngines.MergeTree.SummingMergeTree"],
    [level |-> 4, num |-> <<4, 11, 1, 5>>, name |-> "AggregatingMergeTree"],
    [level |-> 5, num |-> <<4, 11, 1, 5, 1>>, name |-> "RQ.SRS-032.ClickHouse.Parquet.TableEngines.MergeTree.AggregatingMergeTree"],
    [level |-> 4, num |-> <<4, 11, 1, 6>>, name |-> "CollapsingMergeTree"],
    [level |-> 5, num |-> <<4, 11, 1, 6, 1>>, name |-> "RQ.SRS-032.ClickHouse.Parquet.TableEngines.MergeTree.CollapsingMergeTree"],
    [level |-> 4, num |-> <<4, 11, 1, 7>>, name |-> "VersionedCollapsingMergeTree"],
    [level |-> 5, num |-> <<4, 11, 1, 7, 1>>, name |-> "RQ.SRS-032.ClickHouse.Parquet.TableEngines.MergeTree.VersionedCollapsingMergeTree"],
    [level |-> 4, num |-> <<4, 11, 1, 8>>, name |-> "GraphiteMergeTree"],
    [level |-> 5, num |-> <<4, 11, 1, 8, 1>>, name |-> "RQ.SRS-032.ClickHouse.Parquet.TableEngines.MergeTree.GraphiteMergeTree"],
    [level |-> 3, num |-> <<4, 11, 2>>, name |-> "Integration Engines"],
    [level |-> 4, num |-> <<4, 11, 2, 1>>, name |-> "ODBC Engine"],
    [level |-> 5, num |-> <<4, 11, 2, 1, 1>>, name |-> "RQ.SRS-032.ClickHouse.Parquet.TableEngines.Integration.ODBC"],
    [level |-> 4, num |-> <<4, 11, 2, 2>>, name |-> "JDBC Engine"],
    [level |-> 5, num |-> <<4, 11, 2, 2, 1>>, name |-> "RQ.SRS-032.ClickHouse.Parquet.TableEngines.Integration.JDBC"],
    [level |-> 4, num |-> <<4, 11, 2, 3>>, name |-> "MySQL Engine"],
    [level |-> 5, num |-> <<4, 11, 2, 3, 1>>, name |-> "RQ.SRS-032.ClickHouse.Parquet.TableEngines.Integration.MySQL"],
    [level |-> 4, num |-> <<4, 11, 2, 4>>, name |-> "MongoDB Engine"],
    [level |-> 5, num |-> <<4, 11, 2, 4, 1>>, name |-> "RQ.SRS-032.ClickHouse.Parquet.TableEngines.Integration.MongoDB"],
    [level |-> 4, num |-> <<4, 11, 2, 5>>, name |-> "HDFS Engine"],
    [level |-> 5, num |-> <<4, 11, 2, 5, 1>>, name |-> "RQ.SRS-032.ClickHouse.Parquet.TableEngines.Integration.HDFS"],
    [level |-> 4, num |-> <<4, 11, 2, 6>>, name |-> "S3 Engine"],
    [level |-> 5, num |-> <<4, 11, 2, 6, 1>>, name |-> "RQ.SRS-032.ClickHouse.Parquet.TableEngines.Integration.S3"],
    [level |-> 4, num |-> <<4, 11, 2, 7>>, name |-> "Kafka Engine"],
    [level |-> 5, num |-> <<4, 11, 2, 7, 1>>, name |-> "RQ.SRS-032.ClickHouse.Parquet.TableEngines.Integration.Kafka"],
    [level |-> 4, num |-> <<4, 11, 2, 8>>, name |-> "EmbeddedRocksDB Engine"],
    [level |-> 5, num |-> <<4, 11, 2, 8, 1>>, name |-> "RQ.SRS-032.ClickHouse.Parquet.TableEngines.Integration.EmbeddedRocksDB"],
    [level |-> 4, num |-> <<4, 11, 2, 9>>, name |-> "PostgreSQL Engine"],
    [level |-> 4, num |-> <<4, 11, 2, 10>>, name |-> "RQ.SRS-032.ClickHouse.Parquet.TableEngines.Integration.PostgreSQL"],
    [level |-> 3, num |-> <<4, 11, 3>>, name |-> "Special Engines"],
    [level |-> 4, num |-> <<4, 11, 3, 1>>, name |-> "RQ.SRS-032.ClickHouse.Parquet.TableEngines.Special.Memory"],
    [level |-> 4, num |-> <<4, 11, 3, 2>>, name |-> "RQ.SRS-032.ClickHouse.Parquet.TableEngines.Special.Distributed"],
    [level |-> 4, num |-> <<4, 11, 3, 3>>, name |-> "RQ.SRS-032.ClickHouse.Parquet.TableEngines.Special.Dictionary"] >>

\* Heading entries (lines 3631-3777)
Headings05 ==
  << [level |-> 4, num |-> <<4, 11, 3, 4>>, name |-> "RQ.SRS-032.ClickHouse.Parquet.TableEngines.Special.File"],
    [level |-> 4, num |-> <<4, 11, 3, 5>>, name |-> "RQ.SRS-032.ClickHouse.Parquet.TableEngines.Special.URL"],
    [level |-> 2, num |-> <<4, 12>>, name |-> "Metadata"],
    [level |-> 3, num |-> <<4, 12, 1>>, name |-> "ParquetFormat"],
    [level |-> 4, num |-> <<4, 12, 1, 1>>, name |-> "RQ.SRS-032.ClickHouse.Parquet.Metadata.ParquetMetadataFormat"],
    [level |-> 4, num |-> <<4, 12, 1, 2>>, name |-> "RQ.SRS-032.ClickHouse.Parquet.Metadata.ParquetMetadataFormat.Output"],
    [level |-> 4, num |-> <<4, 12, 1, 3>>, name |-> "RQ.SRS-032.ClickHouse.Parquet.Metadata.ParquetMetadata.Content"],
    [level |-> 4, num |-> <<4, 12, 1, 4>>, name |-> "RQ.SRS-032.ClickHouse.Parquet.Metadata.ParquetMetadata.MinMax"],
    [level |-> 3, num |-> <<4, 12, 2>>, name |-> "Metadata Types"],
    [level |-> 4, num |-> <<4, 12, 2, 1>>, name |-> "RQ.SRS-032.ClickHouse.Parquet.Metadata.File"],
    [level |-> 4, num |-> <<4, 12, 2, 2>>, name |-> "RQ.SRS-032.ClickHouse.Parquet.Metadata.Column"],
    [level |-> 4, num |-> <<4, 12, 2, 3>>, name |-> "RQ.SRS-032.ClickHouse.Parquet.Metadata.Header"],
    [level |-> 2, num |-> <<4, 13>>, name |-> "Error Recovery"],
    [level |-> 3, num |-> <<4, 13, 1>>, name |-> "RQ.SRS-032.ClickHouse.Parquet.ErrorRecovery.Corrupt.Metadata.MagicNumber"],
    [level |-> 3, num |-> <<4, 13, 2>>, name |-> "RQ.SRS-032.ClickHouse.Parquet.ErrorRecovery.Corrupt.Metadata.File"],
    [level |-> 3, num |-> <<4, 13, 3>>, name |-> "RQ.SRS-032.ClickHouse.Parquet.ErrorRecovery.Corrupt.Metadata.Column"],
    [level |-> 3, num |-> <<4, 13, 4>>, name |-> "RQ.SRS-032.ClickHouse.Parquet.ErrorRecovery.Corrupt.Metadata.PageHeader"],
    [level |-> 3, num |-> <<4, 13, 5>>, name |-> "RQ.SRS-032.ClickHouse.Parquet.ErrorRecovery.Corrupt.Metadata.PageData"],
    [level |-> 3, num |-> <<4, 13, 6>>, name |-> "RQ.SRS-032.ClickHouse.Parquet.ErrorRecovery.Corrupt.Metadata.Checksum"],
    [level |-> 3, num |-> <<4, 13, 7>>, name |-> "RQ.SRS-032.ClickHouse.Parquet.ErrorRecovery.Corrupt.Values"],
    [level |-> 4, num |-> <<4, 13, 7, 1>>, name |-> "RQ.SRS-032.ClickHouse.Parquet.ErrorRecovery.Corrupt.Values.Date"],
    [level |-> 4, num |-> <<4, 13, 7, 2>>, name |-> "RQ.SRS-032.ClickHouse.Parquet.ErrorRecovery.Corrupt.Values.Int"],
    [level |-> 4, num |-> <<4, 13, 7, 3>>, name |-> "RQ.SRS-032.ClickHouse.Parquet.ErrorRecovery.Corrupt.Values.BigInt"],
    [level |-> 4, num |-> <<4, 13, 7, 4>>, name |-> "RQ.SRS-032.ClickHouse.Parquet.ErrorRecovery.Corrupt.Values.SmallInt"],
    [level |-> 4, num |-> <<4, 13, 7, 5>>, name |-> "RQ.SRS-032.ClickHouse.Parquet.ErrorRecovery.Corrupt.Values.TinyInt"],
    [level |-> 4, num |-> <<4, 13, 7, 6>>, name |-> "RQ.SRS-032.ClickHouse.Parquet.ErrorRecovery.Corrupt.Values.UInt"],
    [level |-> 4, num |-> <<4, 13, 7, 7>>, name |-> "RQ.SRS-032.ClickHouse.Parquet.ErrorRecovery.Corrupt.Values.UBigInt"],
    [level |-> 4, num |-> <<4, 13, 7, 8>>, name |-> "RQ.SRS-032.ClickHouse.Parquet.ErrorRecovery.Corrupt.Values.USmallInt"],
    [level |-> 4, num |-> <<4, 13, 7, 9>>, name |-> "RQ.SRS-032.ClickHouse.Parquet.ErrorRecovery.Corrupt.Values.UTinyInt"],
    [level |-> 4, num |-> <<4, 13, 7, 10>>, name |-> "RQ.SRS-032.ClickHouse.Parquet.ErrorRecovery.Corrupt.Values.TimestampUS"],
    [level |-> 4, num |-> <<4, 13, 7, 11>>, name |-> "RQ.SRS-032.ClickHouse.Parquet.ErrorRecovery.Corrupt.Values.TimestampMS"],
    [level |-> 4, num |-> <<4, 13, 7, 12>>, name |-> "RQ.SRS-032.ClickHouse.Parquet.ErrorRecovery.Corrupt.Values.Bool"],
    [level |-> 4, num |-> <<4, 13, 7, 13>>, name |-> "RQ.SRS-032.ClickHouse.Parquet.ErrorRecovery.Corrupt.Values.Float"] >>

\* Heading entries (lines 3778-3832)
Headings06 ==
  << [level |-> 4, num |-> <<4, 13, 7, 14>>, name |-> "RQ.SRS-032.ClickHouse.Parquet.ErrorRecovery.Corrupt.Values.Double"],
    [level |-> 4, num |-> <<4, 13, 7, 15>>, name |-> "RQ.SRS-032.ClickHouse.Parquet.ErrorRecovery.Corrupt.Values.TimeMS"],
    [level |-> 4, num |-> <<4, 13, 7, 16>>, name |-> "RQ.SRS-032.ClickHouse.Parquet.ErrorRecovery.Corrupt.Values.TimeUS"],
    [level |-> 4, num |-> <<4, 13, 7, 17>>, name |-> "RQ.SRS-032.ClickHouse.Parquet.ErrorRecovery.Corrupt.Values.TimeNS"],
    [level |-> 4, num |-> <<4, 13, 7, 18>>, name |-> "RQ.SRS-032.ClickHouse.Parquet.ErrorRecovery.Corrupt.Values.String"],
    [level |-> 4, num |-> <<4, 13, 7, 19>>, name |-> "RQ.SRS-032.ClickHouse.Parquet.ErrorRecovery.Corrupt.Values.Binary"],
    [level |-> 4, num |-> <<4, 13, 7, 20>>, name |-> "RQ.SRS-032.ClickHouse.Parquet.ErrorRecovery.Corrupt.Values.FixedLengthByteArray"],
    [level |-> 4, num |-> <<4, 13, 7, 21>>, name |-> "RQ.SRS-032.ClickHouse.Parquet.ErrorRecovery.Corrupt.Values.Decimal"],
    [level |-> 4, num |-> <<4, 13, 7, 22>>, name |-> "RQ.SRS-032.ClickHouse.Parquet.ErrorRecovery.Corrupt.Values.List"],
    [level |-> 4, num |-> <<4, 13, 7, 23>>, name |-> "RQ.SRS-032.ClickHouse.Parquet.ErrorRecovery.Corrupt.Values.Struct"],
    [level |-> 4, num |-> <<4, 13, 7, 24>>, name |-> "RQ.SRS-032.ClickHouse.Parquet.ErrorRecovery.Corrupt.Values.Map"] >>

-----------------------------------------------------------------------------
(* Specification(requirements=(...)): the identifiers registered. *)

\* Variant in which a newly added requirement was not registered.
ListedMissingOne ==
  << "RQ_SRS_032_ClickHouse_Parquet", "RQ_SRS_032_ClickHouse_Parquet_SupportedVersions",
    "RQ_SRS_032_ClickHouse_Parquet_ClickHouseLocal", "RQ_SRS_032_ClickHouse_Parquet_Query_Cache",
    "RQ_SRS_032_ClickHouse_Parquet_Query_Cache_Performance", "RQ_SRS_032_ClickHouse_Parquet_Glob",
    "RQ_SRS_032_ClickHouse_Parquet_Import", "RQ_SRS_032_ClickHouse_Parquet_Import_AutoDetectParquetFileFormat",
    "RQ_SRS_032_ClickHouse_Parquet_DataTypes_Conversion", "RQ_SRS_032_ClickHouse_Parquet_DataTypes_Import",
    "RQ_SRS_032_ClickHouse_Parquet_DataTypes_DateUTCAdjusted", "RQ_SRS_032_ClickHouse_Parquet_DataTypes_TimestampUTCAdjusted",
    "RQ_SRS_032_ClickHouse_Parquet_DataTypes_TimeUTCAdjusted", "RQ_SRS_032_ClickHouse_Parquet_DataTypes_NullValues",
    "RQ_SRS_032_ClickHouse_Parquet_DataTypes_ImportInto_Nullable", "RQ_SRS_032_ClickHouse_Parquet_DataTypes_ImportInto_LowCardinality",
    "RQ_SRS_032_ClickHouse_Parquet_DataTypes_ImportInto_Nested", "RQ_SRS_032_ClickHouse_Parquet_DataTypes_ImportInto_Unknown",
    "RQ_SRS_032_ClickHouse_Parquet_DataTypes_Unsupported", "RQ_SRS_032_ClickHouse_Parquet_DataTypes_Unsupported_ChunkedArray",
    "RQ_SRS_032_ClickHouse_Parquet_Import_SkipColumns", "RQ_SRS_032_ClickHouse_Parquet_Import_SkipValues",
    "RQ_SRS_032_ClickHouse_Parquet_Import_AutoTypecast", "RQ_SRS_032_ClickHouse_Parquet_Import_RowGroupSize",
    "RQ_SRS_032_ClickHouse_Parquet_Import_DataPageSize", "RQ_SRS_032_ClickHouse_Parquet_Import_NewTable",
    "RQ_SRS_032_ClickHouse_Parquet_Import_Nested_ArrayIntoNested", "RQ_SRS_032_ClickHouse_Parquet_DataTypes_ImportNested",
    "RQ_SRS_032_ClickHouse_Parquet_Import_Nested_ArrayIntoNested_ImportNested", "RQ_SRS_032_ClickHouse_Parquet_Import_Nested_ArrayIntoNested_NotImportNested",
    "RQ_SRS_032_ClickHouse_Parquet_Import_Nested_ArrayIntoNotNested", "RQ_SRS_032_ClickHouse_Parquet_Import_Nested_NonArrayIntoNested",
    "RQ_SRS_032_ClickHouse_Parquet_Import_ChunkedColumns", "RQ_SRS_032_ClickHouse_Parquet_Import_Encoding_Plain",
    "RQ_SRS_032_ClickHouse_Parquet_Import_Encoding_Dictionary", "RQ_SRS_032_ClickHouse_Parquet_Import_Encoding_RunLength",
    "RQ_SRS_032_ClickHouse_Parquet_Import_Encoding_Delta", "RQ_SRS_032_ClickHouse_Parquet_Import_Encoding_DeltaLengthByteArray",
    "RQ_SRS_032_ClickHouse_Parquet_Import_Encoding_DeltaStrings", "RQ_SRS_032_ClickHouse_Parquet_Import_Encoding_ByteStreamSplit",
    "RQ_SRS_032_ClickHouse_Parquet_Import_Settings_ImportNested", "RQ_SRS_032_ClickHouse_Parquet_Import_Settings_CaseInsensitiveColumnMatching",
    "RQ_SRS_032_ClickHouse_Parquet_Import_Settings_AllowMissingColumns", "RQ_SRS_032_ClickHouse_Parquet_Import_Settings_SkipColumnsWithUnsupportedTypesInSchemaInference",
    "RQ_SRS_032_ClickHouse_Parquet_Export", "RQ_SRS_032_ClickHouse_Parquet_Export_Outfile_AutoDetectParquetFileFormat",
    "RQ_SRS_032_ClickHouse_Parquet_Export_Datatypes_Supported", "RQ_SRS_032_ClickHouse_Parquet_DataTypes_ExportNullable",
    "RQ_SRS_032_ClickHouse_Parquet_Export_Nested", "RQ_SRS_032_ClickHouse_Parquet_Export_DataTypes_Nested",
    "RQ_SRS_032_ClickHouse_Parquet_Export_DataTypes_ChunkedColumns", "RQ_SRS_032_ClickHouse_Export_Parquet_Join",
    "RQ_SRS_032_ClickHouse_Parquet_Export_Union", "RQ_SRS_032_ClickHouse_Parquet_Export_View",
    "RQ_SRS_032_ClickHouse_Parquet_Export_Select_MaterializedView", "RQ_SRS_032_ClickHouse_Parquet_Export_Encoding_Plain",
    "RQ_SRS_032_ClickHouse_Parquet_Export_Encoding_Dictionary", "RQ_SRS_032_ClickHouse_Parquet_Export_Encoding_RunLength",
    "RQ_SRS_032_ClickHouse_Parquet_Export_Encoding_Delta", "RQ_SRS_032_ClickHouse_Parquet_Export_Encoding_DeltaLengthByteArray",
    "RQ_SRS_032_ClickHouse_Parquet_Export_Encoding_DeltaStrings", "RQ_SRS_032_ClickHouse_Parquet_Export_Encoding_ByteStreamSplit",
    "RQ_SRS_032_ClickHouse_Parquet_Export_Settings_RowGroupSize", "RQ_SRS_032_ClickHouse_Parquet_Export_Settings_StringAsString",
    "RQ_SRS_032_ClickHouse_Parquet_Export_Settings_StringAsFixedByteArray", "RQ_SRS_032_ClickHouse_Parquet_Export_Settings_ParquetVersion",
    "RQ_SRS_032_ClickHouse_Parquet_Export_Settings_CompressionMethod", "RQ_SRS_032_ClickHouse_Parquet_DataTypes_TypeConversionFunction",
    "RQ_SRS_032_ClickHouse_Parquet_Encryption", "RQ_SRS_032_ClickHouse_Parquet_Structure",
    "RQ_SRS_032_ClickHouse_Parquet_Compression_None", "RQ_SRS_032_ClickHouse_Parquet_Compression_Gzip",
    "RQ_SRS_032_ClickHouse_Parquet_Compression_Brotli", "RQ_SRS_032_ClickHouse_Parquet_Compression_Lz4",
    "RQ_SRS_032_ClickHouse_Parquet_Compression_Lz4Raw", "RQ_SRS_032_ClickHouse_Parquet_UnsupportedCompression_Snappy",
    "RQ_SRS_032_ClickHouse_Parquet_UnsupportedCompression_Lzo", "RQ_SRS_032_ClickHouse_Parquet_UnsupportedCompression_Zstd",
    "RQ_SRS_032_ClickHouse_Parquet_TableFunctions_URL", "RQ_SRS_032_ClickHouse_Parquet_TableFunctions_File",
    "RQ_SRS_032_ClickHouse_Parquet_TableFunctions_File_AutoDetectParquetFileFormat", "RQ_SRS_032_ClickHouse_Parquet_TableFunctions_S3",
    "RQ_SRS_032_ClickHouse_Parquet_TableFunctions_JDBC", "RQ_SRS_032_ClickHouse_Parquet_TableFunctions_ODBC",
    "RQ_SRS_032_ClickHouse_Parquet_TableFunctions_HDFS", "RQ_SRS_032_ClickHouse_Parquet_TableFunctions_Remote",
    "RQ_SRS_032_ClickHouse_Parquet_TableFunctions_MySQL", "RQ_SRS_032_ClickHouse_Parquet_TableFunctions_PostgreSQL",
    "RQ_SRS_032_ClickHouse_Parquet_TableEngines_MergeTree_MergeTree", "RQ_SRS_032_ClickHouse_Parquet_TableEngines_MergeTree_ReplicatedMergeTree",
    "RQ_SRS_032_ClickHouse_Parquet_TableEngines_MergeTree_ReplacingMergeTree", "RQ_SRS_032_ClickHouse_Parquet_TableEngines_MergeTree_SummingMergeTree",
    "RQ_SRS_032_ClickHouse_Parquet_TableEngines_MergeTree_AggregatingMergeTree", "RQ_SRS_032_ClickHouse_Parquet_TableEngines_MergeTree_CollapsingMergeTree",
    "RQ_SRS_032_ClickHouse_Parquet_TableEngines_MergeTree_VersionedCollapsingMergeTree", "RQ_SRS_032_ClickHouse_Parquet_TableEngines_MergeTree_GraphiteMergeTree",
    "RQ_SRS_032_ClickHouse_Parquet_TableEngines_Integration_ODBC", "RQ_SRS_032_ClickHouse_Parquet_TableEngines_Integration_JDBC",
    "RQ_SRS_032_ClickHouse_Parquet_TableEngines_Integration_MySQL", "RQ_SRS_032_ClickHouse_Parquet_TableEngines_Integration_MongoDB",
    "RQ_SRS_032_ClickHouse_Parquet_TableEngines_Integration_HDFS", "RQ_SRS_032_ClickHouse_Parquet_TableEngines_Integration_S3",
    "RQ_SRS_032_ClickHouse_Parquet_TableEngines_Integration_Kafka", "RQ_SRS_032_ClickHouse_Parquet_TableEngines_Integration_EmbeddedRocksDB",
    "RQ_SRS_032_ClickHouse_Parquet_TableEngines_Integration_PostgreSQL", "RQ_SRS_032_ClickHouse_Parquet_TableEngines_Special_Memory",
    "RQ_SRS_032_ClickHouse_Parquet_TableEngines_Special_Distributed", "RQ_SRS_032_ClickHouse_Parquet_TableEngines_Special_Dictionary",
    "RQ_SRS_032_ClickHouse_Parquet_TableEngines_Special_File", "RQ_SRS_032_ClickHouse_Parquet_TableEngines_Special_URL",
    "RQ_SRS_032_ClickHouse_Parquet_Metadata_ParquetMetadataFormat", "RQ_SRS_032_ClickHouse_Parquet_Metadata_ParquetMetadataFormat_Output",
    "RQ_SRS_032_ClickHouse_Parquet_Metadata_ParquetMetadata_Content", "RQ_SRS_032_ClickHouse_Parquet_Metadata_ParquetMetadata_MinMax",
    "RQ_SRS_032_ClickHouse_Parquet_Metadata_File", "RQ_SRS_032_ClickHouse_Parquet_Metadata_Column",
    "RQ_SRS_032_ClickHouse_Parquet_Metadata_Header", "RQ_SRS_032_ClickHouse_Parquet_ErrorRecovery_Corrupt_Metadata_MagicNumber",
    "RQ_SRS_032_ClickHouse_Parquet_ErrorRecovery_Corrupt_Metadata_File", "RQ_SRS_032_ClickHouse_Parquet_ErrorRecovery_Corrupt_Metadata_Column",
    "RQ_SRS_032_ClickHouse_Parquet_ErrorRecovery_Corrupt_Metadata_PageHeader", "RQ_SRS_032_ClickHouse_Parquet_ErrorRecovery_Corrupt_Metadata_PageData",
    "RQ_SRS_032_ClickHouse_Parquet_ErrorRecovery_Corrupt_Metadata_Checksum", "RQ_SRS_032_ClickHouse_Parquet_ErrorRecovery_Corrupt_Values",
    "RQ_SRS_032_ClickHouse_Parquet_ErrorRecovery_Corrupt_Values_Date", "RQ_SRS_032_ClickHouse_Parquet_ErrorRecovery_Corrupt_Values_Int",
    "RQ_SRS_032_ClickHouse_Parquet_ErrorRecovery_Corrupt_Values_BigInt", "RQ_SRS_032_ClickHouse_Parquet_ErrorRecovery_Corrupt_Values_SmallInt",
    "RQ_SRS_032_ClickHouse_Parquet_ErrorRecovery_Corrupt_Values_TinyInt", "RQ_SRS_032_ClickHouse_Parquet_ErrorRecovery_Corrupt_Values_UInt",
    "RQ_SRS_032_ClickHouse_Parquet_ErrorRecovery_Corrupt_Values_UBigInt", "RQ_SRS_032_ClickHouse_Parquet_ErrorRecovery_Corrupt_Values_USmallInt",
    "RQ_SRS_032_ClickHouse_Parquet_ErrorRecovery_Corrupt_Values_UTinyInt", "RQ_SRS_032_ClickHouse_Parquet_ErrorRecovery_Corrupt_Values_TimestampUS",
    "RQ_SRS_032_ClickHouse_Parquet_ErrorRecovery_Corrupt_Values_TimestampMS", "RQ_SRS_032_ClickHouse_Parquet_ErrorRecovery_Corrupt_Values_Bool",
    "RQ_SRS_032_ClickHouse_Parquet_ErrorRecovery_Corrupt_Values_Float", "RQ_SRS_032_ClickHouse_Parquet_ErrorRecovery_Corrupt_Values_Double",
    "RQ_SRS_032_ClickHouse_Parquet_ErrorRecovery_Corrupt_Values_TimeMS", "RQ_SRS_032_ClickHouse_Parquet_ErrorRecovery_Corrupt_Values_TimeUS",
    "RQ_SRS_032_ClickHouse_Parquet_ErrorRecovery_Corrupt_Values_TimeNS", "RQ_SRS_032_ClickHouse_Parquet_ErrorRecovery_Corrupt_Values_String",
    "RQ_SRS_032_ClickHouse_Parquet_ErrorRecovery_Corrupt_Values_Binary", "RQ_SRS_032_ClickHouse_Parquet_ErrorRecovery_Corrupt_Values_FixedLengthByteArray",
    "RQ_SRS_032_ClickHouse_Parquet_ErrorRecovery_Corrupt_Values_Decimal", "RQ_SRS_032_ClickHouse_Parquet_ErrorRecovery_Corrupt_Values_List",
    "RQ_SRS_032_ClickHouse_Parquet_ErrorRecovery_Corrupt_Values_Struct", "RQ_SRS_032_ClickHouse_Parquet_ErrorRecovery_Corrupt_Values_Map" >>

\* requirements tuple (lines 3835-3983)
Listed01 ==
  << "RQ_SRS_032_ClickHouse_Parquet", "RQ_SRS_032_ClickHouse_Parquet_SupportedVersions",
    "RQ_SRS_032_ClickHouse_Parquet_ClickHouseLocal", "RQ_SRS_032_ClickHouse_Parquet_Query_Cache",
    "RQ_SRS_032_ClickHouse_Parquet_Query_Cache_Performance", "RQ_SRS_032_ClickHouse_Parquet_Glob",
    "RQ_SRS_032_ClickHouse_Parquet_Import", "RQ_SRS_032_ClickHouse_Parquet_Import_AutoDetectParquetFileFormat",
    "RQ_SRS_032_ClickHouse_Parquet_DataTypes_Conversion", "RQ_SRS_032_ClickHouse_Parquet_DataTypes_Import",
    "RQ_SRS_032_ClickHouse_Parquet_DataTypes_DateUTCAdjusted", "RQ_SRS_032_ClickHouse_Parquet_DataTypes_TimestampUTCAdjusted",
    "RQ_SRS_032_ClickHouse_Parquet_DataTypes_TimeUTCAdjusted", "RQ_SRS_032_ClickHouse_Parquet_DataTypes_NullValues",
    "RQ_SRS_032_ClickHouse_Parquet_DataTypes_ImportInto_Nullable", "RQ_SRS_032_ClickHouse_Parquet_DataTypes_ImportInto_LowCardinality",
    "RQ_SRS_032_ClickHouse_Parquet_DataTypes_ImportInto_Nested", "RQ_SRS_032_ClickHouse_Parquet_DataTypes_ImportInto_Unknown",
    "RQ_SRS_032_ClickHouse_Parquet_DataTypes_Unsupported", "RQ_SRS_032_ClickHouse_Parquet_DataTypes_Unsupported_ChunkedArray",
    "RQ_SRS_032_ClickHouse_Parquet_Import_Projections", "RQ_SRS_032_ClickHouse_Parquet_Import_SkipColumns",
    "RQ_SRS_032_ClickHouse_Parquet_Import_SkipValues", "RQ_SRS_032_ClickHouse_Parquet_Import_AutoTypecast",
    "RQ_SRS_032_ClickHouse_Parquet_Import_RowGroupSize", "RQ_SRS_032_ClickHouse_Parquet_Import_DataPageSize",
    "RQ_SRS_032_ClickHouse_Parquet_Import_NewTable", "RQ_SRS_032_ClickHouse_Parquet_Import_Nested_ArrayIntoNested",
    "RQ_SRS_032_ClickHouse_Parquet_DataTypes_ImportNested", "RQ_SRS_032_ClickHouse_Parquet_Import_Nested_ArrayIntoNested_ImportNested",
    "RQ_SRS_032_ClickHouse_Parquet_Import_Nested_ArrayIntoNested_NotImportNested", "RQ_SRS_032_ClickHouse_Parquet_Import_Nested_ArrayIntoNotNested",
    "RQ_SRS_032_ClickHouse_Parquet_Import_Nested_NonArrayIntoNested", "RQ_SRS_032_ClickHouse_Parquet_Import_ChunkedColumns",
    "RQ_SRS_032_ClickHouse_Parquet_Import_Encoding_Plain", "RQ_SRS_032_ClickHouse_Parquet_Import_Encoding_Dictionary",
    "RQ_SRS_032_ClickHouse_Parquet_Import_Encoding_RunLength", "RQ_SRS_032_ClickHouse_Parquet_Import_Encoding_Delta",
    "RQ_SRS_032_ClickHouse_Parquet_Import_Encoding_DeltaLengthByteArray", "RQ_SRS_032_ClickHouse_Parquet_Import_Encoding_DeltaStrings",
    "RQ_SRS_032_ClickHouse_Parquet_Import_Encoding_ByteStreamSplit", "RQ_SRS_032_ClickHouse_Parquet_Import_Settings_ImportNested",
    "RQ_SRS_032_ClickHouse_Parquet_Import_Settings_CaseInsensitiveColumnMatching", "RQ_SRS_032_ClickHouse_Parquet_Import_Settings_AllowMissingColumns",
    "RQ_SRS_032_ClickHouse_Parquet_Import_Settings_SkipColumnsWithUnsupportedTypesInSchemaInference", "RQ_SRS_032_ClickHouse_Parquet_Export",
    "RQ_SRS_032_ClickHouse_Parquet_Export_Outfile_AutoDetectParquetFileFormat", "RQ_SRS_032_ClickHouse_Parquet_Export_Datatypes_Supported",
    "RQ_SRS_032_ClickHouse_Parquet_DataTypes_ExportNullable", "RQ_SRS_032_ClickHouse_Parquet_Export_Nested",
    "RQ_SRS_032_ClickHouse_Parquet_Export_DataTypes_Nested", "RQ_SRS_032_ClickHouse_Parquet_Export_DataTypes_ChunkedColumns",
    "RQ_SRS_032_ClickHouse_Export_Parquet_Join", "RQ_SRS_032_ClickHouse_Parquet_Export_Union",
    "RQ_SRS_032_ClickHouse_Parquet_Export_View", "RQ_SRS_032_ClickHouse_Parquet_Export_Select_MaterializedView",
    "RQ_SRS_032_ClickHouse_Parquet_Export_Encoding_Plain", "RQ_SRS_032_ClickHouse_Parquet_Export_Encoding_Dictionary",
    "RQ_SRS_032_ClickHouse_Parquet_Export_Encoding_RunLength", "RQ_SRS_032_ClickHouse_Parquet_Export_Encoding_Delta",
    "RQ_SRS_032_ClickHouse_Parquet_Export_Encoding_DeltaLengthByteArray", "RQ_SRS_032_ClickHouse_Parquet_Export_Encoding_DeltaStrings",
    "RQ_SRS_032_ClickHouse_Parquet_Export_Encoding_ByteStreamSplit", "RQ_SRS_032_ClickHouse_Parquet_Export_Settings_RowGroupSize",
    "RQ_SRS_032_ClickHouse_Parquet_Export_Settings_StringAsString", "RQ_SRS_032_ClickHouse_Parquet_Export_Settings_StringAsFixedByteArray",
    "RQ_SRS_032_ClickHouse_Parquet_Export_Settings_ParquetVersion", "RQ_SRS_032_ClickHouse_Parquet_Export_Settings_CompressionMethod",
    "RQ_SRS_032_ClickHouse_Parquet_DataTypes_TypeConversionFunction", "RQ_SRS_032_ClickHouse_Parquet_Encryption",
    "RQ_SRS_032_ClickHouse_Parquet_Structure", "RQ_SRS_032_ClickHouse_Parquet_Compression_None",
    "RQ_SRS_032_ClickHouse_Parquet_Compression_Gzip", "RQ_SRS_032_ClickHouse_Parquet_Compression_Brotli",
    "RQ_SRS_032_ClickHouse_Parquet_Compression_Lz4", "RQ_SRS_032_ClickHouse_Parquet_Compression_Lz4Raw",
    "RQ_SRS_032_ClickHouse_Parquet_UnsupportedCompression_Snappy", "RQ_SRS_032_ClickHouse_Parquet_UnsupportedCompression_Lzo",
    "RQ_SRS_032_ClickHouse_Parquet_UnsupportedCompression_Zstd", "RQ_SRS_032_ClickHouse_Parquet_TableFunctions_URL",
    "RQ_SRS_032_ClickHouse_Parquet_TableFunctions_File", "RQ_SRS_032_ClickHouse_Parquet_TableFunctions_File_AutoDetectParquetFileFormat",
    "RQ_SRS_032_ClickHouse_Parquet_TableFunctions_S3", "RQ_SRS_032_ClickHouse_Parquet_TableFunctions_JDBC",
    "RQ_SRS_032_ClickHouse_Parquet_TableFunctions_ODBC", "RQ_SRS_032_ClickHouse_Parquet_TableFunctions_HDFS",
    "RQ_SRS_032_ClickHouse_Parquet_TableFunctions_Remote", "RQ_SRS_032_ClickHouse_Parquet_TableFunctions_MySQL",
    "RQ_SRS_032_ClickHouse_Parquet_TableFunctions_PostgreSQL", "RQ_SRS_032_ClickHouse_Parquet_TableEngines_MergeTree_MergeTree",
    "RQ_SRS_032_ClickHouse_Parquet_TableEngines_MergeTree_ReplicatedMergeTree", "RQ_SRS_032_ClickHouse_Parquet_TableEngines_MergeTree_ReplacingMergeTree",
    "RQ_SRS_032_ClickHouse_Parquet_TableEngines_MergeTree_SummingMergeTree", "RQ_SRS_032_ClickHouse_Parquet_TableEngines_MergeTree_AggregatingMergeTree",
    "RQ_SRS_032_ClickHouse_Parquet_TableEngines_MergeTree_CollapsingMergeTree", "RQ_SRS_032_ClickHouse_Parquet_TableEngines_MergeTree_VersionedCollapsingMergeTree",
    "RQ_SRS_032_ClickHouse_Parquet_TableEngines_MergeTree_GraphiteMergeTree", "RQ_SRS_032_ClickHouse_Parquet_TableEngines_Integration_ODBC",
    "RQ_SRS_032_ClickHouse_Parquet_TableEngines_Integration_JDBC", "RQ_SRS_032_ClickHouse_Parquet_TableEngines_Integration_MySQL",
    "RQ_SRS_032_ClickHouse_Parquet_TableEngines_Integration_MongoDB", "RQ_SRS_032_ClickHouse_Parquet_TableEngines_Integration_HDFS",
    "RQ_SRS_032_ClickHouse_Parquet_TableEngines_Integration_S3", "RQ_SRS_032_ClickHouse_Parquet_TableEngines_Integration_Kafka",
    "RQ_SRS_032_ClickHouse_Parquet_TableEngines_Integration_EmbeddedRocksDB", "RQ_SRS_032_ClickHouse_Parquet_TableEngines_Integration_PostgreSQL",
    "RQ_SRS_032_ClickHouse_Parquet_TableEngines_Special_Memory", "RQ_SRS_032_ClickHouse_Parquet_TableEngines_Special_Distributed",
    "RQ_SRS_032_ClickHouse_Parquet_TableEngines_Special_Dictionary", "RQ_SRS_032_ClickHouse_Parquet_TableEngines_Special_File",
    "RQ_SRS_032_ClickHouse_Parquet_TableEngines_Special_URL", "RQ_SRS_032_ClickHouse_Parquet_Metadata_ParquetMetadataFormat",
    "RQ_SRS_032_ClickHouse_Parquet_Metadata_ParquetMetadataFormat_Output", "RQ_SRS_032_ClickHouse_Parquet_Metadata_ParquetMetadata_Content",
    "RQ_SRS_032_ClickHouse_Parquet_Metadata_ParquetMetadata_MinMax", "RQ_SRS_032_ClickHouse_Parquet_Metadata_File",
    "RQ_SRS_032_ClickHouse_Parquet_Metadata_Column", "RQ_SRS_032_ClickHouse_Parquet_Metadata_Header",
    "RQ_SRS_032_ClickHouse_Parquet_ErrorRecovery_Corrupt_Metadata_MagicNumber", "RQ_SRS_032_ClickHouse_Parquet_ErrorRecovery_Corrupt_Metadata_File",
    "RQ_SRS_032_ClickHouse_Parquet_ErrorRecovery_Corrupt_Metadata_Column", "RQ_SRS_032_ClickHouse_Parquet_ErrorRecovery_Corrupt_Metadata_PageHeader",
    "RQ_SRS_032_ClickHouse_Parquet_ErrorRecovery_Corrupt_Metadata_PageData", "RQ_SRS_032_ClickHouse_Parquet_ErrorRecovery_Corrupt_Metadata_Checksum",
    "RQ_SRS_032_ClickHouse_Parquet_ErrorRecovery_Corrupt_Values", "RQ_SRS_032_ClickHouse_Parquet_ErrorRecovery_Corrupt_Values_Date",
    "RQ_SRS_032_ClickHouse_Parquet_ErrorRecovery_Corrupt_Values_Int", "RQ_SRS_032_ClickHouse_Parquet_ErrorRecovery_Corrupt_Values_BigInt",
    "RQ_SRS_032_ClickHouse_Parquet_ErrorRecovery_Corrupt_Values_SmallInt", "RQ_SRS_032_ClickHouse_Parquet_ErrorRecovery_Corrupt_Values_TinyInt",
    "RQ_SRS_032_ClickHouse_Parquet_ErrorRecovery_Corrupt_Values_UInt", "RQ_SRS_032_ClickHouse_Parquet_ErrorRecovery_Corrupt_Values_UBigInt",
    "RQ_SRS_032_ClickHouse_Parquet_ErrorRecovery_Corrupt_Values_USmallInt", "RQ_SRS_032_ClickHouse_Parquet_ErrorRecovery_Corrupt_Values_UTinyInt",
    "RQ_SRS_032_ClickHouse_Parquet_ErrorRecovery_Corrupt_Values_TimestampUS", "RQ_SRS_032_ClickHouse_Parquet_ErrorRecovery_Corrupt_Values_TimestampMS",
    "RQ_SRS_032_ClickHouse_Parquet_ErrorRecovery_Corrupt_Values_Bool", "RQ_SRS_032_ClickHouse_Parquet_ErrorRecovery_Corrupt_Values_Float",
    "RQ_SRS_032_ClickHouse_Parquet_ErrorRecovery_Corrupt_Values_Double", "RQ_SRS_032_ClickHouse_Parquet_ErrorRecovery_Corrupt_Values_TimeMS",
    "RQ_SRS_032_ClickHouse_Parquet_ErrorRecovery_Corrupt_Values_TimeUS", "RQ_SRS_032_ClickHouse_Parquet_ErrorRecovery_Corrupt_Values_TimeNS",
    "RQ_SRS_032_ClickHouse_Parquet_ErrorRecovery_Corrupt_Values_String", "RQ_SRS_032_ClickHouse_Parquet_ErrorRecovery_Corrupt_Values_Binary",
    "RQ_SRS_032_ClickHouse_Parquet_ErrorRecovery_Corrupt_Values_FixedLengthByteArray", "RQ_SRS_032_ClickHouse_Parquet_ErrorRecovery_Corrupt_Values_Decimal",
    "RQ_SRS_032_ClickHouse_Parquet_ErrorRecovery_Corrupt_Values_List", "RQ_SRS_032_ClickHouse_Parquet_ErrorRecovery_Corrupt_Values_Struct",
    "RQ_SRS_032_ClickHouse_Parquet_ErrorRecovery_Corrupt_Values_Map" >>

-----------------------------------------------------------------------------
(* content: the table of contents ("* num [name](#anchor)", indented two *)
(* spaces per level) and the body headings (one "#" more than the level), *)
(* with the "version:" line under each requirement heading.               *)

\* Variant whose table of contents still nests an entry one level deeper.
TocStaleLevel ==
  << [level |-> 1, num |-> <<1>>, name |-> "Revision History"],
    [level |-> 1, num |-> <<2>>, name |-> "Introduction"],
    [level |-> 1, num |-> <<3>>, name |-> "Feature Diagram"],
    [level |-> 1, num |-> <<4>>, name |-> "Requirements"],
    [level |-> 2, num |-> <<4, 1>>, name |-> "Working With Parquet"],
    [level |-> 3, num |-> <<4, 1, 1>>, name |-> "RQ.SRS-032.ClickHouse.Parquet"],
    [level |-> 2, num |-> <<4, 2>>, name |-> "Supported Parquet Versions"],
    [level |-> 3, num |-> <<4, 2, 1>>, name |-> "RQ.SRS-032.ClickHouse.Parquet.SupportedVersions"],
    [level |-> 3, num |-> <<4, 2, 2>>, name |-> "RQ.SRS-032.ClickHouse.Parquet.ClickHouseLocal"],
    [level |-> 2, num |-> <<4, 3>>, name |-> "Query Cache"],
    [level |-> 3, num |-> <<4, 3, 1>>, name |-> "RQ.SRS-032.ClickHouse.Parquet.Query.Cache"],
    [level |-> 3, num |-> <<4, 3, 2>>, name |-> "RQ.SRS-032.ClickHouse.Parquet.Query.Cache.Performance"],
    [level |-> 2, num |-> <<4, 4>>, name |-> "Glob Patterns"],
    [level |-> 3, num |-> <<4, 4, 1>>, name |-> "RQ.SRS-032.ClickHouse.Parquet.Glob"],
    [level |-> 2, num |-> <<4, 5>>, name |-> "Import from Parquet Files"],
    [level |-> 4, num |-> <<4, 5, 1, 1>>, name |-> "RQ.SRS-032.ClickHouse.Parquet.Import"],
    [level |-> 4, num |-> <<4, 5, 1, 2>>, name |-> "Auto Detect Parquet File When Importing"],
    [level |-> 5, num |-> <<4, 5, 1, 2, 1>>, name |-> "RQ.SRS-032.ClickHouse.Parquet.Import.AutoDetectParquetFileFormat"],
    [level |-> 4, num |-> <<4, 5, 2>>, name |-> "Supported Datatypes"],
    [level |-> 4, num |-> <<4, 5, 2, 1>>, name |-> "RQ.SRS-032.ClickHouse.Parquet.DataTypes.Conversion"],
    [level |-> 4, num |-> <<4, 5, 2, 2>>, name |-> "RQ.SRS-032.ClickHouse.Parquet.DataTypes.Import"],
    [level |-> 4, num |-> <<4, 5, 2, 3>>, name |-> "UTCAdjusted"],
    [level |-> 5, num |-> <<4, 5, 2, 3, 1>>, name |-> "RQ.SRS-032.ClickHouse.Parquet.DataTypes.DateUTCAdjusted"],
    [level |-> 5, num |-> <<4, 5, 2, 3, 2>>, name |-> "RQ.SRS-032.ClickHouse.Parquet.DataTypes.TimestampUTCAdjusted"],
    [level |-> 5, num |-> <<4, 5, 2, 3, 3>>, name |-> "RQ.SRS-032.ClickHouse.Parquet.DataTypes.TimeUTCAdjusted"],
    [level |-> 4, num |-> <<4, 5, 2, 4>>, name |-> "Nullable"],
    [level |-> 5, num |-> <<4, 5, 2, 4, 1>>, name |-> "RQ.SRS-032.ClickHouse.Parquet.DataTypes.NullValues"],
    [level |-> 5, num |-> <<4, 5, 2, 4, 2>>, name |-> "RQ.SRS-032.ClickHouse.Parquet.DataTypes.ImportInto.Nullable"],
    [level |-> 4, num |-> <<4, 5, 2, 5>>, name |-> "LowCardinality"],
    [level |-> 5, num |-> <<4, 5, 2, 5, 1>>, name |-> "RQ.SRS-032.ClickHouse.Parquet.DataTypes.ImportInto.LowCardinality"],
    [level |-> 4, num |-> <<4, 5, 2, 6>>, name |-> "Nested"],
    [level |-> 5, num |-> <<4, 5, 2, 6, 1>>, name |-> "RQ.SRS-032.ClickHouse.Parquet.DataTypes.ImportInto.Nested"],
    [level |-> 4, num |-> <<4, 5, 2, 7>>, name |-> "UNKNOWN"],
    [level |-> 5, num |-> <<4, 5, 2, 7, 1>>, name |-> "RQ.SRS-032.ClickHouse.Parquet.DataTypes.ImportInto.Unknown"],
    [level |-> 3, num |-> <<4, 5, 3>>, name |-> "Unsupported Datatypes"],
    [level |-> 4, num |-> <<4, 5, 3, 1>>, name |-> "RQ.SRS-032.ClickHouse.Parquet.DataTypes.Unsupported"],
    [level |-> 4, num |-> <<4, 5, 3, 2>>, name |-> "RQ.SRS-032.ClickHouse.Parquet.DataTypes.Unsupported.ChunkedArray"],
    [level |-> 4, num |-> <<4, 5, 3, 3>>, name |-> "Projections"],
    [level |-> 5, num |-> <<4, 5, 3, 3, 1>>, name |-> "RQ.SRS-032.ClickHouse.Parquet.Import.Projections"],
    [level |-> 4, num |-> <<4, 5, 3, 4>>, name |-> "Skip Columns"],
    [level |-> 5, num |-> <<4, 5, 3, 4, 1>>, name |-> "RQ.SRS-032.ClickHouse.Parquet.Import.SkipColumns"],
    [level |-> 4, num |-> <<4, 5, 3, 5>>, name |-> "Skip Values"],
    [level |-> 5, num |-> <<4, 5, 3, 5, 1>>, name |-> "RQ.SRS-032.ClickHouse.Parquet.Import.SkipValues"],
    [level |-> 4, num |-> <<4, 5, 3, 6>>, name |-> "Auto Typecast"],
    [level |-> 5, num |-> <<4, 5, 3, 6, 1>>, name |-> "RQ.SRS-032.ClickHouse.Parquet.Import.AutoTypecast"],
    [level |-> 4, num |-> <<4, 5, 3, 7>>, name |-> "Row Group Size"],
    [level |-> 5, num |-> <<4, 5, 3, 7, 1>>, name |-> "RQ.SRS-032.ClickHouse.Parquet.Import.RowGroupSize"],
    [level |-> 4, num |-> <<4, 5, 3, 8>>, name |-> "Data Page Size"],
    [level |-> 5, num |-> <<4, 5, 3, 8, 1>>, name |-> "RQ.SRS-032.ClickHouse.Parquet.Import.DataPageSize"],
    [level |-> 3, num |-> <<4, 5, 4>>, name |-> "Import Into New Table"],
    [level |-> 4, num |-> <<4, 5, 4, 1>>, name |-> "RQ.SRS-032.ClickHouse.Parquet.Import.NewTable"],
    [level |-> 3, num |-> <<4, 5, 5>>, name |-> "Import Nested Types"],
    [level |-> 4, num |-> <<4, 5, 5, 1>>, name |-> "RQ.SRS-032.ClickHouse.Parquet.Import.Nested.ArrayIntoNested"],
    [level |-> 4, num |-> <<4, 5, 5, 2>>, name |-> "RQ.SRS-032.ClickHouse.Parquet.DataTypes.ImportNested"],
    [level |-> 4, num |-> <<4, 5, 5, 3>>, name |-> "RQ.SRS-032.ClickHouse.Parquet.Import.Nested.ArrayIntoNested.ImportNested"],
    [level |-> 4, num |-> <<4, 5, 5, 4>>, name |-> "RQ.SRS-032.ClickHouse.Parquet.Import.Nested.ArrayIntoNested.NotImportNested"],
    [level |-> 4, num |-> <<4, 5, 5, 5>>, name |-> "RQ.SRS-032.ClickHouse.Parquet.Import.Nested.ArrayIntoNotNested"],
    [level |-> 4, num |-> <<4, 5, 5, 6>>, name |-> "RQ.SRS-032.ClickHouse.Parquet.Import.Nested.NonArrayIntoNested"],
    [level |-> 3, num |-> <<4, 5, 6>>, name |-> "Import Chunked Columns"],
    [level |-> 4, num |-> <<4, 5, 6, 1>>, name |-> "RQ.SRS-032.ClickHouse.Parquet.Import.ChunkedColumns"],
    [level |-> 3, num |-> <<4, 5, 7>>, name |-> "Import Encoded"],
    [level |-> 4, num |-> <<4, 5, 7, 1>>, name |-> "Plain (Import)"],
    [level |-> 5, num |-> <<4, 5, 7, 1, 1>>, name |-> "RQ.SRS-032.ClickHouse.Parquet.Import.Encoding.Plain"],
    [level |-> 4, num |-> <<4, 5, 7, 2>>, name |-> "Dictionary (Import)"],
    [level |-> 5, num |-> <<4, 5, 7, 2, 1>>, name |-> "RQ.SRS-032.ClickHouse.Parquet.Import.Encoding.Dictionary"],
    [level |-> 4, num |-> <<4, 5, 7, 3>>, name |-> "Run Length Encoding (Import)"],
    [level |-> 5, num |-> <<4, 5, 7, 3, 1>>, name |-> "RQ.SRS-032.ClickHouse.Parquet.Import.Encoding.RunLength"],
    [level |-> 4, num |-> <<4, 5, 7, 4>>, name |-> "Delta (Import)"],
    [level |-> 5, num |-> <<4, 5, 7, 4, 1>>, name |-> "RQ.SRS-032.ClickHouse.Parquet.Import.Encoding.Delta"],
    [level |-> 4, num |-> <<4, 5, 7, 5>>, name |-> "Delta-length byte array (Import)"],
    [level |-> 5, num |-> <<4, 5, 7, 5, 1>>, name |-> "RQ.SRS-032.ClickHouse.Parquet.Import.Encoding.DeltaLengthByteArray"],
    [level |-> 4, num |-> <<4, 5, 7, 6>>, name |-> "Delta Strings (Import)"],
    [level |-> 5, num |-> <<4, 5, 7, 6, 1>>, name |-> "RQ.SRS-032.ClickHouse.Parquet.Import.Encoding.DeltaStrings"],
    [level |-> 4, num |-> <<4, 5, 7, 7>>, name |-> "Byte Stream Split (Import)"],
    [level |-> 4, num |-> <<4, 5, 7, 8>>, name |-> "RQ.SRS-032.ClickHouse.Parquet.Import.Encoding.ByteStreamSplit"],
    [level |-> 3, num |-> <<4, 5, 8>>, name |-> "Import Settings"],
    [level |-> 4, num |-> <<4, 5, 8, 1>>, name |-> "RQ.SRS-032.ClickHouse.Parquet.Import.Settings.ImportNested"],
    [level |-> 4, num |-> <<4, 5, 8, 2>>, name |-> "RQ.SRS-032.ClickHouse.Parquet.Import.Settings.CaseInsensitiveColumnMatching"],
    [level |-> 4, num |-> <<4, 5, 8, 3>>, name |-> "RQ.SRS-032.ClickHouse.Parquet.Import.Settings.AllowMissingColumns"],
    [level |-> 4, num |-> <<4, 5, 8, 4>>, name |-> "RQ.SRS-032.ClickHouse.Parquet.Import.Settings.SkipColumnsWithUnsupportedTypesInSchemaInference"],
    [level |-> 2, num |-> <<4, 6>>, name |-> "Export from Parquet Files"],
    [level |-> 4, num |-> <<4, 6, 8, 1>>, name |-> "RQ.SRS-032.ClickHouse.Parquet.Export"],
    [level |-> 4, num |-> <<4, 6, 8, 2>>, name |-> "Auto Detect Parquet File When Exporting"],
    [level |-> 5, num |-> <<4, 6, 8, 2, 1>>, name |-> "RQ.SRS-032.ClickHouse.Parquet.Export.Outfile.AutoDetectParquetFileFormat"],
    [level |-> 3, num |-> <<4, 6, 9>>, name |-> "Supported Data types"],
    [level |-> 4, num |-> <<4, 6, 9, 1>>, name |-> "RQ.SRS-032.ClickHouse.Parquet.Export.Datatypes.Supported"],
    [level |-> 4, num |-> <<4, 6, 9, 2>>, name |-> "RQ.SRS-032.ClickHouse.Parquet.DataTypes.ExportNullable"],
    [level |-> 3, num |-> <<4, 6, 10>>, name |-> "Working With Nested Types Export"],
    [level |-> 4, num |-> <<4, 6, 10, 1>>, name |-> "RQ.SRS-032.ClickHouse.Parquet.Export.Nested"],
    [level |-> 4, num |-> <<4, 6, 10, 2>>, name |-> "RQ.SRS-032.ClickHouse.Parquet.Export.DataTypes.Nested"],
    [level |-> 3, num |-> <<4, 6, 11>>, name |-> "Exporting Chunked Columns"],
    [level |-> 4, num |-> <<4, 6, 11, 1>>, name |-> "RQ.SRS-032.ClickHouse.Parquet.Export.DataTypes.ChunkedColumns"],
    [level |-> 3, num |-> <<4, 6, 12>>, name |-> "Query Types"],
    [level |-> 4, num |-> <<4, 6, 12, 1>>, name |-> "RQ.SRS-032.ClickHouse.Export.Parquet.Join"],
    [level |-> 4, num |-> <<4, 6, 12, 2>>, name |-> "RQ.SRS-032.ClickHouse.Parquet.Export.Union"],
    [level |-> 4, num |-> <<4, 6, 12, 3>>, name |-> "RQ.SRS-032.ClickHouse.Parquet.Export.View"],
    [level |-> 4, num |-> <<4, 6, 12, 4>>, name |-> "RQ.SRS-032.ClickHouse.Parquet.Export.Select.MaterializedView"],
    [level |-> 3, num |-> <<4, 6, 13>>, name |-> "Export Encoded"],
    [level |-> 4, num |-> <<4, 6, 13, 1>>, name |-> "Plain (Export)"],
    [level |-> 5, num |-> <<4, 6, 13, 1, 1>>, name |-> "RQ.SRS-032.ClickHouse.Parquet.Export.Encoding.Plain"],
    [level |-> 4, num |-> <<4, 6, 13, 2>>, name |-> "Dictionary (Export)"],
    [level |-> 5, num |-> <<4, 6, 13, 2, 1>>, name |-> "RQ.SRS-032.ClickHouse.Parquet.Export.Encoding.Dictionary"],
    [level |-> 4, num |-> <<4, 6, 13, 3>>, name |-> "Run Length Encoding (Export)"],
    [level |-> 5, num |-> <<4, 6, 13, 3, 1>>, name |-> "RQ.SRS-032.ClickHouse.Parquet.Export.Encoding.RunLength"],
    [level |-> 4, num |-> <<4, 6, 13, 4>>, name |-> "Delta (Export)"],
    [level |-> 5, num |-> <<4, 6, 13, 4, 1>>, name |-> "RQ.SRS-032.ClickHouse.Parquet.Export.Encoding.Delta"],
    [level |-> 4, num |-> <<4, 6, 13, 5>>, name |-> "Delta-length byte array (Export)"],
    [level |-> 5, num |-> <<4, 6, 13, 5, 1>>, name |-> "RQ.SRS-032.ClickHouse.Parquet.Export.Encoding.DeltaLengthByteArray"],
    [level |-> 4, num |-> <<4, 6, 13, 6>>, name |-> "Delta Strings (Export)"],
    [level |-> 5, num |-> <<4, 6, 13, 6, 1>>, name |-> "RQ.SRS-032.ClickHouse.Parquet.Export.Encoding.DeltaStrings"],
    [level |-> 4, num |-> <<4, 6, 13, 7>>, name |-> "Byte Stream Split (Export)"],
    [level |-> 4, num |-> <<4, 6, 13, 8>>, name |-> "RQ.SRS-032.ClickHouse.Parquet.Export.Encoding.ByteStreamSplit"],
    [level |-> 3, num |-> <<4, 6, 14>>, name |-> "Export Settings"],
    [level |-> 4, num |-> <<4, 6, 14, 1>>, name |-> "RQ.SRS-032.ClickHouse.Parquet.Export.Settings.RowGroupSize"],
    [level |-> 4, num |-> <<4, 6, 14, 2>>, name |-> "RQ.SRS-032.ClickHouse.Parquet.Export.Settings.StringAsString"],
    [level |-> 4, num |-> <<4, 6, 14, 3>>, name |-> "RQ.SRS-032.ClickHouse.Parquet.Export.Settings.StringAsFixedByteArray"],
    [level |-> 4, num |-> <<4, 6, 14, 4>>, name |-> "RQ.SRS-032.ClickHouse.Parquet.Export.Settings.ParquetVersion"],
    [level |-> 4, num |-> <<4, 6, 14, 5>>, name |-> "RQ.SRS-032.ClickHouse.Parquet.Export.Settings.CompressionMethod"],
    [level |-> 3, num |-> <<4, 6, 15>>, name |-> "Type Conversion"],
    [level |-> 4, num |-> <<4, 6, 15, 1>>, name |-> "RQ.SRS-032.ClickHouse.Parquet.DataTypes.TypeConversionFunction"],
    [level |-> 2, num |-> <<4, 7>>, name |-> "Parquet Encryption"],
    [level |-> 3, num |-> <<4, 7, 1>>, name |-> "RQ.SRS-032.ClickHouse.Parquet.Encryption"],
    [level |-> 2, num |-> <<4, 8>>, name |-> "DESCRIBE Parquet"],
    [level |-> 3, num |-> <<4, 8, 1>>, name |-> "RQ.SRS-032.ClickHouse.Parquet.Structure"],
    [level |-> 2, num |-> <<4, 9>>, name |-> "Compression"],
    [level |-> 3, num |-> <<4, 9, 1>>, name |-> "None"],
    [level |-> 4, num |-> <<4, 9, 1, 1>>, name |-> "RQ.SRS-032.ClickHouse.Parquet.Compression.None"],
    [level |-> 3, num |-> <<4, 9, 2>>, name |-> "Gzip"],
    [level |-> 4, num |-> <<4, 9, 2, 1>>, name |-> "RQ.SRS-032.ClickHouse.Parquet.Compression.Gzip"],
    [level |-> 3, num |-> <<4, 9, 3>>, name |-> "Brotli"],
    [level |-> 4, num |-> <<4, 9, 3, 1>>, name |-> "RQ.SRS-032.ClickHouse.Parquet.Compression.Brotli"],
    [level |-> 3, num |-> <<4, 9, 4>>, name |-> "Lz4"],
    [level |-> 4, num |-> <<4, 9, 4, 1>>, name |-> "RQ.SRS-032.ClickHouse.Parquet.Compression.Lz4"],
    [level |-> 3, num |-> <<4, 9, 5>>, name |-> "Lz4Raw"],
    [level |-> 4, num |-> <<4, 9, 5, 1>>, name |-> "RQ.SRS-032.ClickHouse.Parquet.Compression.Lz4Raw"],
    [level |-> 3, num |-> <<4, 9, 6>>, name |-> "Unsupported Compression"],
    [level |-> 4, num |-> <<4, 9, 6, 1>>, name |-> "Snappy"],
    [level |-> 5, num |-> <<4, 9, 6, 1, 1>>, name |-> "RQ.SRS-032.ClickHouse.Parquet.UnsupportedCompression.Snappy"],
    [level |-> 4, num |-> <<4, 9, 6, 2>>, name |-> "Lzo"],
    [level |-> 5, num |-> <<4, 9, 6, 2, 1>>, name |-> "RQ.SRS-032.ClickHouse.Parquet.UnsupportedCompression.Lzo"],
    [level |-> 4, num |-> <<4, 9, 6, 3>>, name |-> "Zstd"],
    [level |-> 5, num |-> <<4, 9, 6, 3, 1>>, name |-> "RQ.SRS-032.ClickHouse.Parquet.UnsupportedCompression.Zstd"],
    [level |-> 2, num |-> <<4, 10>>, name |-> "Table Functions"],
    [level |-> 3, num |-> <<4, 10, 1>>, name |-> "URL"],
    [level |-> 4, num |-> <<4, 10, 1, 1>>, name |-> "RQ.SRS-032.ClickHouse.Parquet.TableFunctions.URL"],
    [level |-> 3, num |-> <<4, 10, 2>>, name |-> "File"],
    [level |-> 4, num |-> <<4, 10, 2, 1>>, name |-> "RQ.SRS-032.ClickHouse.Parquet.TableFunctions.File"],
    [level |-> 4, num |-> <<4, 10, 2, 2>>, name |-> "RQ.SRS-032.ClickHouse.Parquet.TableFunctions.File.AutoDetectParquetFileFormat"],
    [level |-> 3, num |-> <<4, 10, 3>>, name |-> "S3"],
    [level |-> 4, num |-> <<4, 10, 3, 1>>, name |-> "RQ.SRS-032.ClickHouse.Parquet.TableFunctions.S3"] >>

\* table of contents entries (lines 3991-4140)
Toc01 ==
  << [level |-> 1, num |-> <<1>>, name |-> "Revision History"],
    [level |-> 1, num |-> <<2>>, name |-> "Introduction"],
    [level |-> 1, num |-> <<3>>, name |-> "Feature Diagram"],
    [level |-> 1, num |-> <<4>>, name |-> "Requirements"],
    [level |-> 2, num |-> <<4, 1>>, name |-> "Working With Parquet"],
    [level |-> 3, num |-> <<4, 1, 1>>, name |-> "RQ.SRS-032.ClickHouse.Parquet"],
    [level |-> 2, num |-> <<4, 2>>, name |-> "Supported Parquet Versions"],
    [level |-> 3, num |-> <<4, 2, 1>>, name |-> "RQ.SRS-032.ClickHouse.Parquet.SupportedVersions"],
    [level |-> 3, num |-> <<4, 2, 2>>, name |-> "RQ.SRS-032.ClickHouse.Parquet.ClickHouseLocal"],
    [level |-> 2, num |-> <<4, 3>>, name |-> "Query Cache"],
    [level |-> 3, num |-> <<4, 3, 1>>, name |-> "RQ.SRS-032.ClickHouse.Parquet.Query.Cache"],
    [level |-> 3, num |-> <<4, 3, 2>>, name |-> "RQ.SRS-032.ClickHouse.Parquet.Query.Cache.Performance"],
    [level |-> 2, num |-> <<4, 4>>, name |-> "Glob Patterns"],
    [level |-> 3, num |-> <<4, 4, 1>>, name |-> "RQ.SRS-032.ClickHouse.Parquet.Glob"],
    [level |-> 2, num |-> <<4, 5>>, name |-> "Import from Parquet Files"],
    [level |-> 4, num |-> <<4, 5, 1, 1>>, name |-> "RQ.SRS-032.ClickHouse.Parquet.Import"],
    [level |-> 4, num |-> <<4, 5, 1, 2>>, name |-> "Auto Detect Parquet File When Importing"],
    [level |-> 5, num |-> <<4, 5, 1, 2, 1>>, name |-> "RQ.SRS-032.ClickHouse.Parquet.Import.AutoDetectParquetFileFormat"],
    [level |-> 3, num |-> <<4, 5, 2>>, name |-> "Supported Datatypes"],
    [level |-> 4, num |-> <<4, 5, 2, 1>>, name |-> "RQ.SRS-032.ClickHouse.Parquet.DataTypes.Conversion"],
    [level |-> 4, num |-> <<4, 5, 2, 2>>, name |-> "RQ.SRS-032.ClickHouse.Parquet.DataTypes.Import"],
    [level |-> 4, num |-> <<4, 5, 2, 3>>, name |-> "UTCAdjusted"],
    [level |-> 5, num |-> <<4, 5, 2, 3, 1>>, name |-> "RQ.SRS-032.ClickHouse.Parquet.DataTypes.DateUTCAdjusted"],
    [level |-> 5, num |-> <<4, 5, 2, 3, 2>>, name |-> "RQ.SRS-032.ClickHouse.Parquet.DataTypes.TimestampUTCAdjusted"],
    [level |-> 5, num |-> <<4, 5, 2, 3, 3>>, name |-> "RQ.SRS-032.ClickHouse.Parquet.DataTypes.TimeUTCAdjusted"],
    [level |-> 4, num |-> <<4, 5, 2, 4>>, name |-> "Nullable"],
    [level |-> 5, num |-> <<4, 5, 2, 4, 1>>, name |-> "RQ.SRS-032.ClickHouse.Parquet.DataTypes.NullValues"],
    [level |-> 5, num |-> <<4, 5, 2, 4, 2>>, name |-> "RQ.SRS-032.ClickHouse.Parquet.DataTypes.ImportInto.Nullable"],
    [level |-> 4, num |-> <<4, 5, 2, 5>>, name |-> "LowCardinality"],
    [level |-> 5, num |-> <<4, 5, 2, 5, 1>>, name |-> "RQ.SRS-032.ClickHouse.Parquet.DataTypes.ImportInto.LowCardinality"],
    [level |-> 4, num |-> <<4, 5, 2, 6>>, name |-> "Nested"],
    [level |-> 5, num |-> <<4, 5, 2, 6, 1>>, name |-> "RQ.SRS-032.ClickHouse.Parquet.DataTypes.ImportInto.Nested"],
    [level |-> 4, num |-> <<4, 5, 2, 7>>, name |-> "UNKNOWN"],
    [level |-> 5, num |-> <<4, 5, 2, 7, 1>>, name |-> "RQ.SRS-032.ClickHouse.Parquet.DataTypes.ImportInto.Unknown"],
    [level |-> 3, num |-> <<4, 5, 3>>, name |-> "Unsupported Datatypes"],
    [level |-> 4, num |-> <<4, 5, 3, 1>>, name |-> "RQ.SRS-032.ClickHouse.Parquet.DataTypes.Unsupported"],
    [level |-> 4, num |-> <<4, 5, 3, 2>>, name |-> "RQ.SRS-032.ClickHouse.Parquet.DataTypes.Unsupported.ChunkedArray"],
    [level |-> 4, num |-> <<4, 5, 3, 3>>, name |-> "Projections"],
    [level |-> 5, num |-> <<4, 5, 3, 3, 1>>, name |-> "RQ.SRS-032.ClickHouse.Parquet.Import.Projections"],
    [level |-> 4, num |-> <<4, 5, 3, 4>>, name |-> "Skip Columns"],
    [level |-> 5, num |-> <<4, 5, 3, 4, 1>>, name |-> "RQ.SRS-032.ClickHouse.Parquet.Import.SkipColumns"],
    [level |-> 4, num |-> <<4, 5, 3, 5>>, name |-> "Skip Values"],
    [level |-> 5, num |-> <<4, 5, 3, 5, 1>>, name |-> "RQ.SRS-032.ClickHouse.Parquet.Import.SkipValues"],
    [level |-> 4, num |-> <<4, 5, 3, 6>>, name |-> "Auto Typecast"],
    [level |-> 5, num |-> <<4, 5, 3, 6, 1>>, name |-> "RQ.SRS-032.ClickHouse.Parquet.Import.AutoTypecast"],
    [level |-> 4, num |-> <<4, 5, 3, 7>>, name |-> "Row Group Size"],
    [level |-> 5, num |-> <<4, 5, 3, 7, 1>>, name |-> "RQ.SRS-032.ClickHouse.Parquet.Import.RowGroupSize"],
    [level |-> 4, num |-> <<4, 5, 3, 8>>, name |-> "Data Page Size"],
    [level |-> 5, num |-> <<4, 5, 3, 8, 1>>, name |-> "RQ.SRS-032.ClickHouse.Parquet.Import.DataPageSize"],
    [level |-> 3, num |-> <<4, 5, 4>>, name |-> "Import Into New Table"],
    [level |-> 4, num |-> <<4, 5, 4, 1>>, name |-> "RQ.SRS-032.ClickHouse.Parquet.Import.NewTable"],
    [level |-> 3, num |-> <<4, 5, 5>>, name |-> "Import Nested Types"],
    [level |-> 4, num |-> <<4, 5, 5, 1>>, name |-> "RQ.SRS-032.ClickHouse.Parquet.Import.Nested.ArrayIntoNested"],
    [level |-> 4, num |-> <<4, 5, 5, 2>>, name |-> "RQ.SRS-032.ClickHouse.Parquet.DataTypes.ImportNested"],
    [level |-> 4, num |-> <<4, 5, 5, 3>>, name |-> "RQ.SRS-032.ClickHouse.Parquet.Import.Nested.ArrayIntoNested.ImportNested"],
    [level |-> 4, num |-> <<4, 5, 5, 4>>, name |-> "RQ.SRS-032.ClickHouse.Parquet.Import.Nested.ArrayIntoNested.NotImportNested"],
    [level |-> 4, num |-> <<4, 5, 5, 5>>, name |-> "RQ.SRS-032.ClickHouse.Parquet.Import.Nested.ArrayIntoNotNested"],
    [level |-> 4, num |-> <<4, 5, 5, 6>>, name |-> "RQ.SRS-032.ClickHouse.Parquet.Import.Nested.NonArrayIntoNested"],
    [level |-> 3, num |-> <<4, 5, 6>>, name |-> "Import Chunked Columns"],
    [level |-> 4, num |-> <<4, 5, 6, 1>>, name |-> "RQ.SRS-032.ClickHouse.Parquet.Import.ChunkedColumns"],
    [level |-> 3, num |-> <<4, 5, 7>>, name |-> "Import Encoded"],
    [level |-> 4, num |-> <<4, 5, 7, 1>>, name |-> "Plain (Import)"],
    [level |-> 5, num |-> <<4, 5, 7, 1, 1>>, name |-> "RQ.SRS-032.ClickHouse.Parquet.Import.Encoding.Plain"],
    [level |-> 4, num |-> <<4, 5, 7, 2>>, name |-> "Dictionary (Import)"],
    [level |-> 5, num |-> <<4, 5, 7, 2, 1>>, name |-> "RQ.SRS-032.ClickHouse.Parquet.Import.Encoding.Dictionary"],
    [level |-> 4, num |-> <<4, 5, 7, 3>>, name |-> "Run Length Encoding (Import)"],
    [level |-> 5, num |-> <<4, 5, 7, 3, 1>>, name |-> "RQ.SRS-032.ClickHouse.Parquet.Import.Encoding.RunLength"],
    [level |-> 4, num |-> <<4, 5, 7, 4>>, name |-> "Delta (Import)"],
    [level |-> 5, num |-> <<4, 5, 7, 4, 1>>, name |-> "RQ.SRS-032.ClickHouse.Parquet.Import.Encoding.Delta"],
    [level |-> 4, num |-> <<4, 5, 7, 5>>, name |-> "Delta-length byte array (Import)"],
    [level |-> 5, num |-> <<4, 5, 7, 5, 1>>, name |-> "RQ.SRS-032.ClickHouse.Parquet.Import.Encoding.DeltaLengthByteArray"],
    [level |-> 4, num |-> <<4, 5, 7, 6>>, name |-> "Delta Strings (Import)"],
    [level |-> 5, num |-> <<4, 5, 7, 6, 1>>, name |-> "RQ.SRS-032.ClickHouse.Parquet.Import.Encoding.DeltaStrings"],
    [level |-> 4, num |-> <<4, 5, 7, 7>>, name |-> "Byte Stream Split (Import)"],
    [level |-> 4, num |-> <<4, 5, 7, 8>>, name |-> "RQ.SRS-032.ClickHouse.Parquet.Import.Encoding.ByteStreamSplit"],
    [level |-> 3, num |-> <<4, 5, 8>>, name |-> "Import Settings"],
    [level |-> 4, num |-> <<4, 5, 8, 1>>, name |-> "RQ.SRS-032.ClickHouse.Parquet.Import.Settings.ImportNested"],
    [level |-> 4, num |-> <<4, 5, 8, 2>>, name |-> "RQ.SRS-032.ClickHouse.Parquet.Import.Settings.CaseInsensitiveColumnMatching"],
    [level |-> 4, num |-> <<4, 5, 8, 3>>, name |-> "RQ.SRS-032.ClickHouse.Parquet.Import.Settings.AllowMissingColumns"],
    [level |-> 4, num |-> <<4, 5, 8, 4>>, name |-> "RQ.SRS-032.ClickHouse.Parquet.Import.Settings.SkipColumnsWithUnsupportedTypesInSchemaInference"],
    [level |-> 2, num |-> <<4, 6>>, name |-> "Export from Parquet Files"],
    [level |-> 4, num |-> <<4, 6, 8, 1>>, name |-> "RQ.SRS-032.ClickHouse.Parquet.Export"],
    [level |-> 4, num |-> <<4, 6, 8, 2>>, name |-> "Auto Detect Parquet File When Exporting"],
    [level |-> 5, num |-> <<4, 6, 8, 2, 1>>, name |-> "RQ.SRS-032.ClickHouse.Parquet.Export.Outfile.AutoDetectParquetFileFormat"],
    [level |-> 3, num |-> <<4, 6, 9>>, name |-> "Supported Data types"],
    [level |-> 4, num |-> <<4, 6, 9, 1>>, name |-> "RQ.SRS-032.ClickHouse.Parquet.Export.Datatypes.Supported"],
    [level |-> 4, num |-> <<4, 6, 9, 2>>, name |-> "RQ.SRS-032.ClickHouse.Parquet.DataTypes.ExportNullable"],
    [level |-> 3, num |-> <<4, 6, 10>>, name |-> "Working With Nested Types Export"],
    [level |-> 4, num |-> <<4, 6, 10, 1>>, name |-> "RQ.SRS-032.ClickHouse.Parquet.Export.Nested"],
    [level |-> 4, num |-> <<4, 6, 10, 2>>, name |-> "RQ.SRS-032.ClickHouse.Parquet.Export.DataTypes.Nested"],
    [level |-> 3, num |-> <<4, 6, 11>>, name |-> "Exporting Chunked Columns"],
    [level |-> 4, num |-> <<4, 6, 11, 1>>, name |-> "RQ.SRS-032.ClickHouse.Parquet.Export.DataTypes.ChunkedColumns"],
    [level |-> 3, num |-> <<4, 6, 12>>, name |-> "Query Types"],
    [level |-> 4, num |-> <<4, 6, 12, 1>>, name |-> "RQ.SRS-032.ClickHouse.Export.Parquet.Join"],
    [level |-> 4, num |-> <<4, 6, 12, 2>>, name |-> "RQ.SRS-032.ClickHouse.Parquet.Export.Union"],
    [level |-> 4, num |-> <<4, 6, 12, 3>>, name |-> "RQ.SRS-032.ClickHouse.Parquet.Export.View"],
    [level |-> 4, num |-> <<4, 6, 12, 4>>, name |-> "RQ.SRS-032.ClickHouse.Parquet.Export.Select.MaterializedView"],
    [level |-> 3, num |-> <<4, 6, 13>>, name |-> "Export Encoded"],
    [level |-> 4, num |-> <<4, 6, 13, 1>>, name |-> "Plain (Export)"],
    [level |-> 5, num |-> <<4, 6, 13, 1, 1>>, name |-> "RQ.SRS-032.ClickHouse.Parquet.Export.Encoding.Plain"],
    [level |-> 4, num |-> <<4, 6, 13, 2>>, name |-> "Dictionary (Export)"],
    [level |-> 5, num |-> <<4, 6, 13, 2, 1>>, name |-> "RQ.SRS-032.ClickHouse.Parquet.Export.Encoding.Dictionary"],
    [level |-> 4, num |-> <<4, 6, 13, 3>>, name |-> "Run Length Encoding (Export)"],
    [level |-> 5, num |-> <<4, 6, 13, 3, 1>>, name |-> "RQ.SRS-032.ClickHouse.Parquet.Export.Encoding.RunLength"],
    [level |-> 4, num |-> <<4, 6, 13, 4>>, name |-> "Delta (Export)"],
    [level |-> 5, num |-> <<4, 6, 13, 4, 1>>, name |-> "RQ.SRS-032.ClickHouse.Parquet.Export.Encoding.Delta"],
    [level |-> 4, num |-> <<4, 6, 13, 5>>, name |-> "Delta-length byte array (Export)"],
    [level |-> 5, num |-> <<4, 6, 13, 5, 1>>, name |-> "RQ.SRS-032.ClickHouse.Parquet.Export.Encoding.DeltaLengthByteArray"],
    [level |-> 4, num |-> <<4, 6, 13, 6>>, name |-> "Delta Strings (Export)"],
    [level |-> 5, num |-> <<4, 6, 13, 6, 1>>, name |-> "RQ.SRS-032.ClickHouse.Parquet.Export.Encoding.DeltaStrings"],
    [level |-> 4, num |-> <<4, 6, 13, 7>>, name |-> "Byte Stream Split (Export)"],
    [level |-> 4, num |-> <<4, 6, 13, 8>>, name |-> "RQ.SRS-032.ClickHouse.Parquet.Export.Encoding.ByteStreamSplit"],
    [level |-> 3, num |-> <<4, 6, 14>>, name |-> "Export Settings"],
    [level |-> 4, num |-> <<4, 6, 14, 1>>, name |-> "RQ.SRS-032.ClickHouse.Parquet.Export.Settings.RowGroupSize"],
    [level |-> 4, num |-> <<4, 6, 14, 2>>, name |-> "RQ.SRS-032.ClickHouse.Parquet.Export.Settings.StringAsString"],
    [level |-> 4, num |-> <<4, 6, 14, 3>>, name |-> "RQ.SRS-032.ClickHouse.Parquet.Export.Settings.StringAsFixedByteArray"],
    [level |-> 4, num |-> <<4, 6, 14, 4>>, name |-> "RQ.SRS-032.ClickHouse.Parquet.Export.Settings.ParquetVersion"],
    [level |-> 4, num |-> <<4, 6, 14, 5>>, name |-> "RQ.SRS-032.ClickHouse.Parquet.Export.Settings.CompressionMethod"],
    [level |-> 3, num |-> <<4, 6, 15>>, name |-> "Type Conversion"],
    [level |-> 4, num |-> <<4, 6, 15, 1>>, name |-> "RQ.SRS-032.ClickHouse.Parquet.DataTypes.TypeConversionFunction"],
    [level |-> 2, num |-> <<4, 7>>, name |-> "Parquet Encryption"],
    [level |-> 3, num |-> <<4, 7, 1>>, name |-> "RQ.SRS-032.ClickHouse.Parquet.Encryption"],
    [level |-> 2, num |-> <<4, 8>>, name |-> "DESCRIBE Parquet"],
    [level |-> 3, num |-> <<4, 8, 1>>, name |-> "RQ.SRS-032.ClickHouse.Parquet.Structure"],
    [level |-> 2, num |-> <<4, 9>>, name |-> "Compression"],
    [level |-> 3, num |-> <<4, 9, 1>>, name |-> "None"],
    [level |-> 4, num |-> <<4, 9, 1, 1>>, name |-> "RQ.SRS-032.ClickHouse.Parquet.Compression.None"],
    [level |-> 3, num |-> <<4, 9, 2>>, name |-> "Gzip"],
    [level |-> 4, num |-> <<4, 9, 2, 1>>, name |-> "RQ.SRS-032.ClickHouse.Parquet.Compression.Gzip"],
    [level |-> 3, num |-> <<4, 9, 3>>, name |-> "Brotli"],
    [level |-> 4, num |-> <<4, 9, 3, 1>>, name |-> "RQ.SRS-032.ClickHouse.Parquet.Compression.Brotli"],
    [level |-> 3, num |-> <<4, 9, 4>>, name |-> "Lz4"],
    [level |-> 4, num |-> <<4, 9, 4, 1>>, name |-> "RQ.SRS-032.ClickHouse.Parquet.Compression.Lz4"],
    [level |-> 3, num |-> <<4, 9, 5>>, name |-> "Lz4Raw"],
    [level |-> 4, num |-> <<4, 9, 5, 1>>, name |-> "RQ.SRS-032.ClickHouse.Parquet.Compression.Lz4Raw"],
    [level |-> 3, num |-> <<4, 9, 6>>, name |-> "Unsupported Compression"],
    [level |-> 4, num |-> <<4, 9, 6, 1>>, name |-> "Snappy"],
    [level |-> 5, num |-> <<4, 9, 6, 1, 1>>, name |-> "RQ.SRS-032.ClickHouse.Parquet.UnsupportedCompression.Snappy"],
    [level |-> 4, num |-> <<4, 9, 6, 2>>, name |-> "Lzo"],
    [level |-> 5, num |-> <<4, 9, 6, 2, 1>>, name |-> "RQ.SRS-032.ClickHouse.Parquet.UnsupportedCompression.Lzo"],
    [level |-> 4, num |-> <<4, 9, 6, 3>>, name |-> "Zstd"],
    [level |-> 5, num |-> <<4, 9, 6, 3, 1>>, name |-> "RQ.SRS-032.ClickHouse.Parquet.UnsupportedCompression.Zstd"],
    [level |-> 2, num |-> <<4, 10>>, name |-> "Table Functions"],
    [level |-> 3, num |-> <<4, 10, 1>>, name |-> "URL"],
    [level |-> 4, num |-> <<4, 10, 1, 1>>, name |-> "RQ.SRS-032.ClickHouse.Parquet.TableFunctions.URL"],
    [level |-> 3, num |-> <<4, 10, 2>>, name |-> "File"],
    [level |-> 4, num |-> <<4, 10, 2, 1>>, name |-> "RQ.SRS-032.ClickHouse.Parquet.TableFunctions.File"],
    [level |-> 4, num |-> <<4, 10, 2, 2>>, name |-> "RQ.SRS-032.ClickHouse.Parquet.TableFunctions.File.AutoDetectParquetFileFormat"],
    [level |-> 3, num |-> <<4, 10, 3>>, name |-> "S3"],
    [level |-> 4, num |-> <<4, 10, 3, 1>>, name |-> "RQ.SRS-032.ClickHouse.Parquet.TableFunctions.S3"] >>

\* table of contents entries (lines 4141-4236)
Toc02 ==
  << [level |-> 3, num |-> <<4, 10, 4>>, name |-> "JDBC"],
    [level |-> 4, num |-> <<4, 10, 4, 1>>, name |-> "RQ.SRS-032.ClickHouse.Parquet.TableFunctions.JDBC"],
    [level |-> 3, num |-> <<4, 10, 5>>, name |-> "ODBC"],
    [level |-> 4, num |-> <<4, 10, 5, 1>>, name |-> "RQ.SRS-032.ClickHouse.Parquet.TableFunctions.ODBC"],
    [level |-> 3, num |-> <<4, 10, 6>>, name |-> "HDFS"],
    [level |-> 4, num |-> <<4, 10, 6, 1>>, name |-> "RQ.SRS-032.ClickHouse.Parquet.TableFunctions.HDFS"],
    [level |-> 3, num |-> <<4, 10, 7>>, name |-> "Remote"],
    [level |-> 4, num |-> <<4, 10, 7, 1>>, name |-> "RQ.SRS-032.ClickHouse.Parquet.TableFunctions.Remote"],
    [level |-> 3, num |-> <<4, 10, 8>>, name |-> "MySQL"],
    [level |-> 4, num |-> <<4, 10, 8, 1>>, name |-> "RQ.SRS-032.ClickHouse.Parquet.TableFunctions.MySQL"],
    [level |-> 3, num |-> <<4, 10, 9>>, name |-> "PostgreSQL"],
    [level |-> 4, num |-> <<4, 10, 9, 1>>, name |-> "RQ.SRS-032.ClickHouse.Parquet.TableFunctions.PostgreSQL"],
    [level |-> 2, num |-> <<4, 11>>, name |-> "Table Engines"],
    [level |-> 3, num |-> <<4, 11, 1>>, name |-> "MergeTree"],
    [level |-> 4, num |-> <<4, 11, 1, 1>>, name |-> "RQ.SRS-032.ClickHouse.Parquet.TableEngines.MergeTree.MergeTree"],
    [level |-> 4, num |-> <<4, 11, 1, 2>>, name |-> "ReplicatedMergeTree"],
    [level |-> 5, num |-> <<4, 11, 1, 2, 1>>, name |-> "RQ.SRS-032.ClickHouse.Parquet.TableEngines.MergeTree.ReplicatedMergeTree"],
    [level |-> 4, num |-> <<4, 11, 1, 3>>, name |-> "ReplacingMergeTree"],
    [level |-> 5, num |-> <<4, 11, 1, 3, 1>>, name |-> "RQ.SRS-032.ClickHouse.Parquet.TableEngines.MergeTree.ReplacingMergeTree"],
    [level |-> 4, num |-> <<4, 11, 1, 4>>, name |-> "SummingMergeTree"],
    [level |-> 5, num |-> <<4, 11, 1, 4, 1>>, name |-> "RQ.SRS-032.ClickHouse.Parquet.TableEngines.MergeTree.SummingMergeTree"],
    [level |-> 4, num |-> <<4, 11, 1, 5>>, name |-> "AggregatingMergeTree"],
    [level |-> 5, num |-> <<4, 11, 1, 5, 1>>, name |-> "RQ.SRS-032.ClickHouse.Parquet.TableEngines.MergeTree.AggregatingMergeTree"],
    [level |-> 4, num |-> <<4, 11, 1, 6>>, name |-> "CollapsingMergeTree"],
    [level |-> 5, num |-> <<4, 11, 1, 6, 1>>, name |-> "RQ.SRS-032.ClickHouse.Parquet.TableEngines.MergeTree.CollapsingMergeTree"],
    [level |-> 4, num |-> <<4, 11, 1, 7>>, name |-> "VersionedCollapsingMergeTree"],
    [level |-> 5, num |-> <<4, 11, 1, 7, 1>>, name |-> "RQ.SRS-032.ClickHouse.Parquet.TableEngines.MergeTree.VersionedCollapsingMergeTree"],
    [level |-> 4, num |-> <<4, 11, 1, 8>>, name |-> "GraphiteMergeTree"],
    [level |-> 5, num |-> <<4, 11, 1, 8, 1>>, name |-> "RQ.SRS-032.ClickHouse.Parquet.TableEngines.MergeTree.GraphiteMergeTree"],
    [level |-> 3, num |-> <<4, 11, 2>>, name |-> "Integration Engines"],
    [level |-> 4, num |-> <<4, 11, 2, 1>>, name |-> "ODBC Engine"],
    [level |-> 5, num |-> <<4, 11, 2, 1, 1>>, name |-> "RQ.SRS-032.ClickHouse.Parquet.TableEngines.Integration.ODBC"],
    [level |-> 4, num |-> <<4, 11, 2, 2>>, name |-> "JDBC Engine"],
    [level |-> 5, num |-> <<4, 11, 2, 2, 1>>, name |-> "RQ.SRS-032.ClickHouse.Parquet.TableEngines.Integration.JDBC"],
    [level |-> 4, num |-> <<4, 11, 2, 3>>, name |-> "MySQL Engine"],
    [level |-> 5, num |-> <<4, 11, 2, 3, 1>>, name |-> "RQ.SRS-032.ClickHouse.Parquet.TableEngines.Integration.MySQL"],
    [level |-> 4, num |-> <<4, 11, 2, 4>>, name |-> "MongoDB Engine"],
    [level |-> 5, num |-> <<4, 11, 2, 4, 1>>, name |-> "RQ.SRS-032.ClickHouse.Parquet.TableEngines.Integration.MongoDB"],
    [level |-> 4, num |-> <<4, 11, 2, 5>>, name |-> "HDFS Engine"],
    [level |-> 5, num |-> <<4, 11, 2, 5, 1>>, name |-> "RQ.SRS-032.ClickHouse.Parquet.TableEngines.Integration.HDFS"],
    [level |-> 4, num |-> <<4, 11, 2, 6>>, name |-> "S3 Engine"],
    [level |-> 5, num |-> <<4, 11, 2, 6, 1>>, name |-> "RQ.SRS-032.ClickHouse.Parquet.TableEngines.Integration.S3"],
    [level |-> 4, num |-> <<4, 11, 2, 7>>, name |-> "Kafka Engine"],
    [level |-> 5, num |-> <<4, 11, 2, 7, 1>>, name |-> "RQ.SRS-032.ClickHouse.Parquet.TableEngines.Integration.Kafka"],
    [level |-> 4, num |-> <<4, 11, 2, 8>>, name |-> "EmbeddedRocksDB Engine"],
    [level |-> 5, num |-> <<4, 11, 2, 8, 1>>, name |-> "RQ.SRS-032.ClickHouse.Parquet.TableEngines.Integration.EmbeddedRocksDB"],
    [level |-> 4, num |-> <<4, 11, 2, 9>>, name |-> "PostgreSQL Engine"],
    [level |-> 4, num |-> <<4, 11, 2, 10>>, name |-> "RQ.SRS-032.ClickHouse.Parquet.TableEngines.Integration.PostgreSQL"],
    [level |-> 3, num |-> <<4, 11, 3>>, name |-> "Special Engines"],
    [level |-> 4, num |-> <<4, 11, 3, 1>>, name |-> "RQ.SRS-032.ClickHouse.Parquet.TableEngines.Special.Memory"],
    [level |-> 4, num |-> <<4, 11, 3, 2>>, name |-> "RQ.SRS-032.ClickHouse.Parquet.TableEngines.Special.Distributed"],
    [level |-> 4, num |-> <<4, 11, 3, 3>>, name |-> "RQ.SRS-032.ClickHouse.Parquet.TableEngines.Special.Dictionary"],
    [level |-> 4, num |-> <<4, 11, 3, 4>>, name |-> "RQ.SRS-032.ClickHouse.Parquet.TableEngines.Special.File"],
    [level |-> 4, num |-> <<4, 11, 3, 5>>, name |-> "RQ.SRS-032.ClickHouse.Parquet.TableEngines.Special.URL"],
    [level |-> 2, num |-> <<4, 12>>, name |-> "Metadata"],
    [level |-> 3, num |-> <<4, 12, 1>>, name |-> "ParquetFormat"],
    [level |-> 4, num |-> <<4, 12, 1, 1>>, name |-> "RQ.SRS-032.ClickHouse.Parquet.Metadata.ParquetMetadataFormat"],
    [level |-> 4, num |-> <<4, 12, 1, 2>>, name |-> "RQ.SRS-032.ClickHouse.Parquet.Metadata.ParquetMetadataFormat.Output"],
    [level |-> 4, num |-> <<4, 12, 1, 3>>, name |-> "RQ.SRS-032.ClickHouse.Parquet.Metadata.ParquetMetadata.Content"],
    [level |-> 4, num |-> <<4, 12, 1, 4>>, name |-> "RQ.SRS-032.ClickHouse.Parquet.Metadata.ParquetMetadata.MinMax"],
    [level |-> 3, num |-> <<4, 12, 2>>, name |-> "Metadata Types"],
    [level |-> 4, num |-> <<4, 12, 2, 1>>, name |-> "RQ.SRS-032.ClickHouse.Parquet.Metadata.File"],
    [level |-> 4, num |-> <<4, 12, 2, 2>>, name |-> "RQ.SRS-032.ClickHouse.Parquet.Metadata.Column"],
    [level |-> 4, num |-> <<4, 12, 2, 3>>, name |-> "RQ.SRS-032.ClickHouse.Parquet.Metadata.Header"],
    [level |-> 2, num |-> <<4, 13>>, name |-> "Error Recovery"],
    [level |-> 3, num |-> <<4, 13, 1>>, name |-> "RQ.SRS-032.ClickHouse.Parquet.ErrorRecovery.Corrupt.Metadata.MagicNumber"],
    [level |-> 3, num |-> <<4, 13, 2>>, name |-> "RQ.SRS-032.ClickHouse.Parquet.ErrorRecovery.Corrupt.Metadata.File"],
    [level |-> 3, num |-> <<4, 13, 3>>, name |-> "RQ.SRS-032.ClickHouse.Parquet.ErrorRecovery.Corrupt.Metadata.Column"],
    [level |-> 3, num |-> <<4, 13, 4>>, name |-> "RQ.SRS-032.ClickHouse.Parquet.ErrorRecovery.Corrupt.Metadata.PageHeader"],
    [level |-> 3, num |-> <<4, 13, 5>>, name |-> "RQ.SRS-032.ClickHouse.Parquet.ErrorRecovery.Corrupt.Metadata.PageData"],
    [level |-> 3, num |-> <<4, 13, 6>>, name |-> "RQ.SRS-032.ClickHouse.Parquet.ErrorRecovery.Corrupt.Metadata.Checksum"],
    [level |-> 3, num |-> <<4, 13, 7>>, name |-> "RQ.SRS-032.ClickHouse.Parquet.ErrorRecovery.Corrupt.Values"],
    [level |-> 4, num |-> <<4, 13, 7, 1>>, name |-> "RQ.SRS-032.ClickHouse.Parquet.ErrorRecovery.Corrupt.Values.Date"],
    [level |-> 4, num |-> <<4, 13, 7, 2>>, name |-> "RQ.SRS-032.ClickHouse.Parquet.ErrorRecovery.Corrupt.Values.Int"],
    [level |-> 4, num |-> <<4, 13, 7, 3>>, name |-> "RQ.SRS-032.ClickHouse.Parquet.ErrorRecovery.Corrupt.Values.BigInt"],
    [level |-> 4, num |-> <<4, 13, 7, 4>>, name |-> "RQ.SRS-032.ClickHouse.Parquet.ErrorRecovery.Corrupt.Values.SmallInt"],
    [level |-> 4, num |-> <<4, 13, 7, 5>>, name |-> "RQ.SRS-032.ClickHouse.Parquet.ErrorRecovery.Corrupt.Values.TinyInt"],
    [level |-> 4, num |-> <<4, 13, 7, 6>>, name |-> "RQ.SRS-032.ClickHouse.Parquet.ErrorRecovery.Corrupt.Values.UInt"],
    [level |-> 4, num |-> <<4, 13, 7, 7>>, name |-> "RQ.SRS-032.ClickHouse.Parquet.ErrorRecovery.Corrupt.Values.UBigInt"],
    [level |-> 4, num |-> <<4, 13, 7, 8>>, name |-> "RQ.SRS-032.ClickHouse.Parquet.ErrorRecovery.Corrupt.Values.USmallInt"],
    [level |-> 4, num |-> <<4, 13, 7, 9>>, name |-> "RQ.SRS-032.ClickHouse.Parquet.ErrorRecovery.Corrupt.Values.UTinyInt"],
    [level |-> 4, num |-> <<4, 13, 7, 10>>, name |-> "RQ.SRS-032.ClickHouse.Parquet.ErrorRecovery.Corrupt.Values.TimestampUS"],
    [level |-> 4, num |-> <<4, 13, 7, 11>>, name |-> "RQ.SRS-032.ClickHouse.Parquet.ErrorRecovery.Corrupt.Values.TimestampMS"],
    [level |-> 4, num |-> <<4, 13, 7, 12>>, name |-> "RQ.SRS-032.ClickHouse.Parquet.ErrorRecovery.Corrupt.Values.Bool"],
    [level |-> 4, num |-> <<4, 13, 7, 13>>, name |-> "RQ.SRS-032.ClickHouse.Parquet.ErrorRecovery.Corrupt.Values.Float"],
    [level |-> 4, num |-> <<4, 13, 7, 14>>, name |-> "RQ.SRS-032.ClickHouse.Parquet.ErrorRecovery.Corrupt.Values.Double"],
    [level |-> 4, num |-> <<4, 13, 7, 15>>, name |-> "RQ.SRS-032.ClickHouse.Parquet.ErrorRecovery.Corrupt.Values.TimeMS"],
    [level |-> 4, num |-> <<4, 13, 7, 16>>, name |-> "RQ.SRS-032.ClickHouse.Parquet.ErrorRecovery.Corrupt.Values.TimeUS"],
    [level |-> 4, num |-> <<4, 13, 7, 17>>, name |-> "RQ.SRS-032.ClickHouse.Parquet.ErrorRecovery.Corrupt.Values.TimeNS"],
    [level |-> 4, num |-> <<4, 13, 7, 18>>, name |-> "RQ.SRS-032.ClickHouse.Parquet.ErrorRecovery.Corrupt.Values.String"],
    [level |-> 4, num |-> <<4, 13, 7, 19>>, name |-> "RQ.SRS-032.ClickHouse.Parquet.ErrorRecovery.Corrupt.Values.Binary"],
    [level |-> 4, num |-> <<4, 13, 7, 20>>, name |-> "RQ.SRS-032.ClickHouse.Parquet.ErrorRecovery.Corrupt.Values.FixedLengthByteArray"],
    [level |-> 4, num |-> <<4, 13, 7, 21>>, name |-> "RQ.SRS-032.ClickHouse.Parquet.ErrorRecovery.Corrupt.Values.Decimal"],
    [level |-> 4, num |-> <<4, 13, 7, 22>>, name |-> "RQ.SRS-032.ClickHouse.Parquet.ErrorRecovery.Corrupt.Values.List"],
    [level |-> 4, num |-> <<4, 13, 7, 23>>, name |-> "RQ.SRS-032.ClickHouse.Parquet.ErrorRecovery.Corrupt.Values.Struct"],
    [level |-> 4, num |-> <<4, 13, 7, 24>>, name |-> "RQ.SRS-032.ClickHouse.Parquet.ErrorRecovery.Corrupt.Values.Map"] >>

\* body headings (lines 4239-4254)
Body01 ==
  << [level |-> 1, version |-> "", name |-> "Revision History"],
    [level |-> 1, version |-> "", name |-> "Introduction"] >>

\* body headings (lines 4255-4606)
Body02 ==
  << [level |-> 1, version |-> "", name |-> "Feature Diagram"] >>

\* body headings (lines 4607-4705)
Body03 ==
  << [level |-> 1, version |-> "", name |-> "Requirements"],
    [level |-> 2, version |-> "", name |-> "Working With Parquet"],
    [level |-> 3, version |-> "1.0", name |-> "RQ.SRS-032.ClickHouse.Parquet"],
    [level |-> 2, version |-> "", name |-> "Supported Parquet Versions"],
    [level |-> 3, version |-> "1.0", name |-> "RQ.SRS-032.ClickHouse.Parquet.SupportedVersions"],
    [level |-> 3, version |-> "1.0", name |-> "RQ.SRS-032.ClickHouse.Parquet.ClickHouseLocal"],
    [level |-> 2, version |-> "", name |-> "Query Cache"],
    [level |-> 3, version |-> "1.0", name |-> "RQ.SRS-032.ClickHouse.Parquet.Query.Cache"],
    [level |-> 3, version |-> "1.0", name |-> "RQ.SRS-032.ClickHouse.Parquet.Query.Cache.Performance"],
    [level |-> 2, version |-> "", name |-> "Glob Patterns"],
    [level |-> 3, version |-> "1.0", name |-> "RQ.SRS-032.ClickHouse.Parquet.Glob"],
    [level |-> 2, version |-> "", name |-> "Import from Parquet Files"],
    [level |-> 4, version |-> "1.0", name |-> "RQ.SRS-032.ClickHouse.Parquet.Import"],
    [level |-> 4, version |-> "", name |-> "Auto Detect Parquet File When Importing"],
    [level |-> 5, version |-> "1.0", name |-> "RQ.SRS-032.ClickHouse.Parquet.Import.AutoDetectParquetFileFormat"],
    [level |-> 3, version |-> "", name |-> "Supported Datatypes"] >>

\* body headings (lines 4706-4851)
Body04 ==
  << [level |-> 4, version |-> "1.0", name |-> "RQ.SRS-032.ClickHouse.Parquet.DataTypes.Conversion"] >>

\* Variant in which a body heading has one "#" too many.
BodyDemoted ==
  << [level |-> 4, version |-> "1.0", name |-> "RQ.SRS-032.ClickHouse.Parquet.DataTypes.Import"],
    [level |-> 5, version |-> "", name |-> "UTCAdjusted"],
    [level |-> 5, version |-> "1.0", name |-> "RQ.SRS-032.ClickHouse.Parquet.DataTypes.DateUTCAdjusted"],
    [level |-> 5, version |-> "1.0", name |-> "RQ.SRS-032.ClickHouse.Parquet.DataTypes.TimestampUTCAdjusted"],
    [level |-> 5, version |-> "1.0", name |-> "RQ.SRS-032.ClickHouse.Parquet.DataTypes.TimeUTCAdjusted"],
    [level |-> 4, version |-> "", name |-> "Nullable"],
    [level |-> 5, version |-> "1.0", name |-> "RQ.SRS-032.ClickHouse.Parquet.DataTypes.NullValues"],
    [level |-> 5, version |-> "1.0", name |-> "RQ.SRS-032.ClickHouse.Parquet.DataTypes.ImportInto.Nullable"],
    [level |-> 4, version |-> "", name |-> "LowCardinality"],
    [level |-> 5, version |-> "1.0", name |-> "RQ.SRS-032.ClickHouse.Parquet.DataTypes.ImportInto.LowCardinality"],
    [level |-> 4, version |-> "", name |-> "Nested"],
    [level |-> 5, version |-> "1.0", name |-> "RQ.SRS-032.ClickHouse.Parquet.DataTypes.ImportInto.Nested"],
    [level |-> 4, version |-> "", name |-> "UNKNOWN"],
    [level |-> 5, version |-> "1.0", name |-> "RQ.SRS-032.ClickHouse.Parquet.DataTypes.ImportInto.Unknown"],
    [level |-> 3, version |-> "", name |-> "Unsupported Datatypes"],
    [level |-> 4, version |-> "1.0", name |-> "RQ.SRS-032.ClickHouse.Parquet.DataTypes.Unsupported"],
    [level |-> 4, version |-> "1.0", name |-> "RQ.SRS-032.ClickHouse.Parquet.DataTypes.Unsupported.ChunkedArray"],
    [level |-> 4, version |-> "", name |-> "Projections"],
    [level |-> 5, version |-> "1.0", name |-> "RQ.SRS-032.ClickHouse.Parquet.Import.Projections"],
    [level |-> 4, version |-> "", name |-> "Skip Columns"],
    [level |-> 5, version |-> "1.0", name |-> "RQ.SRS-032.ClickHouse.Parquet.Import.SkipColumns"],
    [level |-> 4, version |-> "", name |-> "Skip Values"] >>

\* body headings (lines 4852-4975)
Body05 ==
  << [level |-> 4, version |-> "1.0", name |-> "RQ.SRS-032.ClickHouse.Parquet.DataTypes.Import"],
    [level |-> 4, version |-> "", name |-> "UTCAdjusted"],
    [level |-> 5, version |-> "1.0", name |-> "RQ.SRS-032.ClickHouse.Parquet.DataTypes.DateUTCAdjusted"],
    [level |-> 5, version |-> "1.0", name |-> "RQ.SRS-032.ClickHouse.Parquet.DataTypes.TimestampUTCAdjusted"],
    [level |-> 5, version |-> "1.0", name |-> "RQ.SRS-032.ClickHouse.Parquet.DataTypes.TimeUTCAdjusted"],
    [level |-> 4, version |-> "", name |-> "Nullable"],
    [level |-> 5, version |-> "1.0", name |-> "RQ.SRS-032.ClickHouse.Parquet.DataTypes.NullValues"],
    [level |-> 5, version |-> "1.0", name |-> "RQ.SRS-032.ClickHouse.Parquet.DataTypes.ImportInto.Nullable"],
    [level |-> 4, version |-> "", name |-> "LowCardinality"],
    [level |-> 5, version |-> "1.0", name |-> "RQ.SRS-032.ClickHouse.Parquet.DataTypes.ImportInto.LowCardinality"],
    [level |-> 4, version |-> "", name |-> "Nested"],
    [level |-> 5, version |-> "1.0", name |-> "RQ.SRS-032.ClickHouse.Parquet.DataTypes.ImportInto.Nested"],
    [level |-> 4, version |-> "", name |-> "UNKNOWN"],
    [level |-> 5, version |-> "1.0", name |-> "RQ.SRS-032.ClickHouse.Parquet.DataTypes.ImportInto.Unknown"],
    [level |-> 3, version |-> "", name |-> "Unsupported Datatypes"],
    [level |-> 4, version |-> "1.0", name |-> "RQ.SRS-032.ClickHouse.Parquet.DataTypes.Unsupported"],
    [level |-> 4, version |-> "1.0", name |-> "RQ.SRS-032.ClickHouse.Parquet.DataTypes.Unsupported.ChunkedArray"],
    [level |-> 4, version |-> "", name |-> "Projections"],
    [level |-> 5, version |-> "1.0", name |-> "RQ.SRS-032.ClickHouse.Parquet.Import.Projections"],
    [level |-> 4, version |-> "", name |-> "Skip Columns"],
    [level |-> 5, version |-> "1.0", name |-> "RQ.SRS-032.ClickHouse.Parquet.Import.SkipColumns"],
    [level |-> 4, version |-> "", name |-> "Skip Values"] >>

\* body headings (lines 4976-5103)
Body06 ==
  << [level |-> 5, version |-> "1.0", name |-> "RQ.SRS-032.ClickHouse.Parquet.Import.SkipValues"],
    [level |-> 4, version |-> "", name |-> "Auto Typecast"],
    [level |-> 5, version |-> "1.0", name |-> "RQ.SRS-032.ClickHouse.Parquet.Import.AutoTypecast"],
    [level |-> 4, version |-> "", name |-> "Row Group Size"],
    [level |-> 5, version |-> "1.0", name |-> "RQ.SRS-032.ClickHouse.Parquet.Import.RowGroupSize"],
    [level |-> 4, version |-> "", name |-> "Data Page Size"],
    [level |-> 5, version |-> "1.0", name |-> "RQ.SRS-032.ClickHouse.Parquet.Import.DataPageSize"],
    [level |-> 3, version |-> "", name |-> "Import Into New Table"] >>

\* body headings (lines 5104-5248)
Body07 ==
  << [level |-> 4, version |-> "1.0", name |-> "RQ.SRS-032.ClickHouse.Parquet.Import.NewTable"],
    [level |-> 3, version |-> "", name |-> "Import Nested Types"],
    [level |-> 4, version |-> "1.0", name |-> "RQ.SRS-032.ClickHouse.Parquet.Import.Nested.ArrayIntoNested"],
    [level |-> 4, version |-> "1.0", name |-> "RQ.SRS-032.ClickHouse.Parquet.DataTypes.ImportNested"],
    [level |-> 4, version |-> "1.0", name |-> "RQ.SRS-032.ClickHouse.Parquet.Import.Nested.ArrayIntoNested.ImportNested"],
    [level |-> 4, version |-> "1.0", name |-> "RQ.SRS-032.ClickHouse.Parquet.Import.Nested.ArrayIntoNested.NotImportNested"],
    [level |-> 4, version |-> "1.0", name |-> "RQ.SRS-032.ClickHouse.Parquet.Import.Nested.ArrayIntoNotNested"],
    [level |-> 4, version |-> "1.0", name |-> "RQ.SRS-032.ClickHouse.Parquet.Import.Nested.NonArrayIntoNested"],
    [level |-> 3, version |-> "", name |-> "Import Chunked Columns"],
    [level |-> 4, version |-> "1.0", name |-> "RQ.SRS-032.ClickHouse.Parquet.Import.ChunkedColumns"],
    [level |-> 3, version |-> "", name |-> "Import Encoded"],
    [level |-> 4, version |-> "", name |-> "Plain (Import)"],
    [level |-> 5, version |-> "1.0", name |-> "RQ.SRS-032.ClickHouse.Parquet.Import.Encoding.Plain"],
    [level |-> 4, version |-> "", name |-> "Dictionary (Import)"],
    [level |-> 5, version |-> "1.0", name |-> "RQ.SRS-032.ClickHouse.Parquet.Import.Encoding.Dictionary"],
    [level |-> 4, version |-> "", name |-> "Run Length Encoding (Import)"],
    [level |-> 5, version |-> "1.0", name |-> "RQ.SRS-032.ClickHouse.Parquet.Import.Encoding.RunLength"],
    [level |-> 4, version |-> "", name |-> "Delta (Import)"],
    [level |-> 5, version |-> "1.0", name |-> "RQ.SRS-032.ClickHouse.Parquet.Import.Encoding.Delta"],
    [level |-> 4, version |-> "", name |-> "Delta-length byte array (Import)"],
    [level |-> 5, version |-> "1.0", name |-> "RQ.SRS-032.ClickHouse.Parquet.Import.Encoding.DeltaLengthByteArray"],
    [level |-> 4, version |-> "", name |-> "Delta Strings (Import)"],
    [level |-> 5, version |-> "1.0", name |-> "RQ.SRS-032.ClickHouse.Parquet.Import.Encoding.DeltaStrings"],
    [level |-> 4, version |-> "", name |-> "Byte Stream Split (Import)"],
    [level |-> 4, version |-> "1.0", name |-> "RQ.SRS-032.ClickHouse.Parquet.Import.Encoding.ByteStreamSplit"],
    [level |-> 3, version |-> "", name |-> "Import Settings"],
    [level |-> 4, version |-> "1.0", name |-> "RQ.SRS-032.ClickHouse.Parquet.Import.Settings.ImportNested"],
    [level |-> 4, version |-> "1.0", name |-> "RQ.SRS-032.ClickHouse.Parquet.Import.Settings.CaseInsensitiveColumnMatching"],
    [level |-> 4, version |-> "1.0", name |-> "RQ.SRS-032.ClickHouse.Parquet.Import.Settings.AllowMissingColumns"] >>

\* body headings (lines 5249-5396)
Body08 ==
  << [level |-> 4, version |-> "1.0", name |-> "RQ.SRS-032.ClickHouse.Parquet.Import.Settings.SkipColumnsWithUnsupportedTypesInSchemaInference"],
    [level |-> 2, version |-> "", name |-> "Export from Parquet Files"],
    [level |-> 4, version |-> "1.0", name |-> "RQ.SRS-032.ClickHouse.Parquet.Export"],
    [level |-> 4, version |-> "", name |-> "Auto Detect Parquet File When Exporting"],
    [level |-> 5, version |-> "1.0", name |-> "RQ.SRS-032.ClickHouse.Parquet.Export.Outfile.AutoDetectParquetFileFormat"],
    [level |-> 3, version |-> "", name |-> "Supported Data types"],
    [level |-> 4, version |-> "1.0", name |-> "RQ.SRS-032.ClickHouse.Parquet.Export.Datatypes.Supported"],
    [level |-> 4, version |-> "1.0", name |-> "RQ.SRS-032.ClickHouse.Parquet.DataTypes.ExportNullable"],
    [level |-> 3, version |-> "", name |-> "Working With Nested Types Export"],
    [level |-> 4, version |-> "1.0", name |-> "RQ.SRS-032.ClickHouse.Parquet.Export.Nested"],
    [level |-> 4, version |-> "1.0", name |-> "RQ.SRS-032.ClickHouse.Parquet.Export.DataTypes.Nested"],
    [level |-> 3, version |-> "", name |-> "Exporting Chunked Columns"],
    [level |-> 4, version |-> "1.0", name |-> "RQ.SRS-032.ClickHouse.Parquet.Export.DataTypes.ChunkedColumns"],
    [level |-> 3, version |-> "", name |-> "Query Types"],
    [level |-> 4, version |-> "1.0", name |-> "RQ.SRS-032.ClickHouse.Export.Parquet.Join"],
    [level |-> 4, version |-> "1.0", name |-> "RQ.SRS-032.ClickHouse.Parquet.Export.Union"],
    [level |-> 4, version |-> "1.0", name |-> "RQ.SRS-032.ClickHouse.Parquet.Export.View"],
    [level |-> 4, version |-> "1.0", name |-> "RQ.SRS-032.ClickHouse.Parquet.Export.Select.MaterializedView"],
    [level |-> 3, version |-> "", name |-> "Export Encoded"],
    [level |-> 4, version |-> "", name |-> "Plain (Export)"],
    [level |-> 5, version |-> "1.0", name |-> "RQ.SRS-032.ClickHouse.Parquet.Export.Encoding.Plain"],
    [level |-> 4, version |-> "", name |-> "Dictionary (Export)"],
    [level |-> 5, version |-> "1.0", name |-> "RQ.SRS-032.ClickHouse.Parquet.Export.Encoding.Dictionary"],
    [level |-> 4, version |-> "", name |-> "Run Length Encoding (Export)"],
    [level |-> 5, version |-> "1.0", name |-> "RQ.SRS-032.ClickHouse.Parquet.Export.Encoding.RunLength"],
    [level |-> 4, version |-> "", name |-> "Delta (Export)"] >>

\* body headings (lines 5397-5544)
Body09 ==
  << [level |-> 5, version |-> "1.0", name |-> "RQ.SRS-032.ClickHouse.Parquet.Export.Encoding.Delta"],
    [level |-> 4, version |-> "", name |-> "Delta-length byte array (Export)"],
    [level |-> 5, version |-> "1.0", name |-> "RQ.SRS-032.ClickHouse.Parquet.Export.Encoding.DeltaLengthByteArray"],
    [level |-> 4, version |-> "", name |-> "Delta Strings (Export)"],
    [level |-> 5, version |-> "1.0", name |-> "RQ.SRS-032.ClickHouse.Parquet.Export.Encoding.DeltaStrings"],
    [level |-> 4, version |-> "", name |-> "Byte Stream Split (Export)"],
    [level |-> 4, version |-> "1.0", name |-> "RQ.SRS-032.ClickHouse.Parquet.Export.Encoding.ByteStreamSplit"],
    [level |-> 3, version |-> "", name |-> "Export Settings"],
    [level |-> 4, version |-> "1.0", name |-> "RQ.SRS-032.ClickHouse.Parquet.Export.Settings.RowGroupSize"],
    [level |-> 4, version |-> "1.0", name |-> "RQ.SRS-032.ClickHouse.Parquet.Export.Settings.StringAsString"],
    [level |-> 4, version |-> "1.0", name |-> "RQ.SRS-032.ClickHouse.Parquet.Export.Settings.StringAsFixedByteArray"],
    [level |-> 4, version |-> "1.0", name |-> "RQ.SRS-032.ClickHouse.Parquet.Export.Settings.ParquetVersion"],
    [level |-> 4, version |-> "1.0", name |-> "RQ.SRS-032.ClickHouse.Parquet.Export.Settings.CompressionMethod"],
    [level |-> 3, version |-> "", name |-> "Type Conversion"],
    [level |-> 4, version |-> "1.0", name |-> "RQ.SRS-032.ClickHouse.Parquet.DataTypes.TypeConversionFunction"],
    [level |-> 2, version |-> "", name |-> "Parquet Encryption"],
    [level |-> 3, version |-> "1.0", name |-> "RQ.SRS-032.ClickHouse.Parquet.Encryption"],
    [level |-> 2, version |-> "", name |-> "DESCRIBE Parquet"],
    [level |-> 3, version |-> "1.0", name |-> "RQ.SRS-032.ClickHouse.Parquet.Structure"],
    [level |-> 2, version |-> "", name |-> "Compression"],
    [level |-> 3, version |-> "", name |-> "None"],
    [level |-> 4, version |-> "1.0", name |-> "RQ.SRS-032.ClickHouse.Parquet.Compression.None"],
    [level |-> 3, version |-> "", name |-> "Gzip"],
    [level |-> 4, version |-> "1.0", name |-> "RQ.SRS-032.ClickHouse.Parquet.Compression.Gzip"],
    [level |-> 3, version |-> "", name |-> "Brotli"],
    [level |-> 4, version |-> "1.0", name |-> "RQ.SRS-032.ClickHouse.Parquet.Compression.Brotli"],
    [level |-> 3, version |-> "", name |-> "Lz4"],
    [level |-> 4, version |-> "1.0", name |-> "RQ.SRS-032.ClickHouse.Parquet.Compression.Lz4"],
    [level |-> 3, version |-> "", name |-> "Lz4Raw"],
    [level |-> 4, version |-> "1.0", name |-> "RQ.SRS-032.ClickHouse.Parquet.Compression.Lz4Raw"],
    [level |-> 3, version |-> "", name |-> "Unsupported Compression"],
    [level |-> 4, version |-> "", name |-> "Snappy"],
    [level |-> 5, version |-> "1.0", name |-> "RQ.SRS-032.ClickHouse.Parquet.UnsupportedCompression.Snappy"],
    [level |-> 4, version |-> "", name |-> "Lzo"],
    [level |-> 5, version |-> "1.0", name |-> "RQ.SRS-032.ClickHouse.Parquet.UnsupportedCompression.Lzo"],
    [level |-> 4, version |-> "", name |-> "Zstd"] >>

\* body headings (lines 5545-5694)
Body10 ==
  << [level |-> 5, version |-> "1.0", name |-> "RQ.SRS-032.ClickHouse.Parquet.UnsupportedCompression.Zstd"],
    [level |-> 2, version |-> "", name |-> "Table Functions"],
    [level |-> 3, version |-> "", name |-> "URL"],
    [level |-> 4, version |-> "1.0", name |-> "RQ.SRS-032.ClickHouse.Parquet.TableFunctions.URL"],
    [level |-> 3, version |-> "", name |-> "File"],
    [level |-> 4, version |-> "1.0", name |-> "RQ.SRS-032.ClickHouse.Parquet.TableFunctions.File"],
    [level |-> 4, version |-> "1.0", name |-> "RQ.SRS-032.ClickHouse.Parquet.TableFunctions.File.AutoDetectParquetFileFormat"],
    [level |-> 3, version |-> "", name |-> "S3"],
    [level |-> 4, version |-> "1.0", name |-> "RQ.SRS-032.ClickHouse.Parquet.TableFunctions.S3"],
    [level |-> 3, version |-> "", name |-> "JDBC"],
    [level |-> 4, version |-> "1.0", name |-> "RQ.SRS-032.ClickHouse.Parquet.TableFunctions.JDBC"],
    [level |-> 3, version |-> "", name |-> "ODBC"],
    [level |-> 4, version |-> "1.0", name |-> "RQ.SRS-032.ClickHouse.Parquet.TableFunctions.ODBC"],
    [level |-> 3, version |-> "", name |-> "HDFS"],
    [level |-> 4, version |-> "1.0", name |-> "RQ.SRS-032.ClickHouse.Parquet.TableFunctions.HDFS"],
    [level |-> 3, version |-> "", name |-> "Remote"],
    [level |-> 4, version |-> "1.0", name |-> "RQ.SRS-032.ClickHouse.Parquet.TableFunctions.Remote"],
    [level |-> 3, version |-> "", name |-> "MySQL"],
    [level |-> 4, version |-> "1.0", name |-> "RQ.SRS-032.ClickHouse.Parquet.TableFunctions.MySQL"],
    [level |-> 3, version |-> "", name |-> "PostgreSQL"],
    [level |-> 4, version |-> "1.0", name |-> "RQ.SRS-032.ClickHouse.Parquet.TableFunctions.PostgreSQL"],
    [level |-> 2, version |-> "", name |-> "Table Engines"],
    [level |-> 3, version |-> "", name |-> "MergeTree"],
    [level |-> 4, version |-> "1.0", name |-> "RQ.SRS-032.ClickHouse.Parquet.TableEngines.MergeTree.MergeTree"],
    [level |-> 4, version |-> "", name |-> "ReplicatedMergeTree"],
    [level |-> 5, version |-> "1.0", name |-> "RQ.SRS-032.ClickHouse.Parquet.TableEngines.MergeTree.ReplicatedMergeTree"],
    [level |-> 4, version |-> "", name |-> "ReplacingMergeTree"],
    [level |-> 5, version |-> "1.0", name |-> "RQ.SRS-032.ClickHouse.Parquet.TableEngines.MergeTree.ReplacingMergeTree"],
    [level |-> 4, version |-> "", name |-> "SummingMergeTree"],
    [level |-> 5, version |-> "1.0", name |-> "RQ.SRS-032.ClickHouse.Parquet.TableEngines.MergeTree.SummingMergeTree"],
    [level |-> 4, version |-> "", name |-> "AggregatingMergeTree"],
    [level |-> 5, version |-> "1.0", name |-> "RQ.SRS-032.ClickHouse.Parquet.TableEngines.MergeTree.AggregatingMergeTree"],
    [level |-> 4, version |-> "", name |-> "CollapsingMergeTree"] >>

\* body headings (lines 5695-5828)
Body11 ==
  << [level |-> 5, version |-> "1.0", name |-> "RQ.SRS-032.ClickHouse.Parquet.TableEngines.MergeTree.CollapsingMergeTree"],
    [level |-> 4, version |-> "", name |-> "VersionedCollapsingMergeTree"],
    [level |-> 5, version |-> "1.0", name |-> "RQ.SRS-032.ClickHouse.Parquet.TableEngines.MergeTree.VersionedCollapsingMergeTree"],
    [level |-> 4, version |-> "", name |-> "GraphiteMergeTree"],
    [level |-> 5, version |-> "1.0", name |-> "RQ.SRS-032.ClickHouse.Parquet.TableEngines.MergeTree.GraphiteMergeTree"],
    [level |-> 3, version |-> "", name |-> "Integration Engines"],
    [level |-> 4, version |-> "", name |-> "ODBC Engine"],
    [level |-> 5, version |-> "1.0", name |-> "RQ.SRS-032.ClickHouse.Parquet.TableEngines.Integration.ODBC"],
    [level |-> 4, version |-> "", name |-> "JDBC Engine"],
    [level |-> 5, version |-> "1.0", name |-> "RQ.SRS-032.ClickHouse.Parquet.TableEngines.Integration.JDBC"],
    [level |-> 4, version |-> "", name |-> "MySQL Engine"],
    [level |-> 5, version |-> "1.0", name |-> "RQ.SRS-032.ClickHouse.Parquet.TableEngines.Integration.MySQL"],
    [level |-> 4, version |-> "", name |-> "MongoDB Engine"],
    [level |-> 5, version |-> "1.0", name |-> "RQ.SRS-032.ClickHouse.Parquet.TableEngines.Integration.MongoDB"],
    [level |-> 4, version |-> "", name |-> "HDFS Engine"],
    [level |-> 5, version |-> "1.0", name |-> "RQ.SRS-032.ClickHouse.Parquet.TableEngines.Integration.HDFS"],
    [level |-> 4, version |-> "", name |-> "S3 Engine"],
    [level |-> 5, version |-> "1.0", name |-> "RQ.SRS-032.ClickHouse.Parquet.TableEngines.Integration.S3"],
    [level |-> 4, version |-> "", name |-> "Kafka Engine"],
    [level |-> 5, version |-> "1.0", name |-> "RQ.SRS-032.ClickHouse.Parquet.TableEngines.Integration.Kafka"],
    [level |-> 4, version |-> "", name |-> "EmbeddedRocksDB Engine"],
    [level |-> 5, version |-> "1.0", name |-> "RQ.SRS-032.ClickHouse.Parquet.TableEngines.Integration.EmbeddedRocksDB"],
    [level |-> 4, version |-> "", name |-> "PostgreSQL Engine"],
    [level |-> 4, version |-> "1.0", name |-> "RQ.SRS-032.ClickHouse.Parquet.TableEngines.Integration.PostgreSQL"],
    [level |-> 3, version |-> "", name |-> "Special Engines"],
    [level |-> 4, version |-> "1.0", name |-> "RQ.SRS-032.ClickHouse.Parquet.TableEngines.Special.Memory"],
    [level |-> 4, version |-> "1.0", name |-> "RQ.SRS-032.ClickHouse.Parquet.TableEngines.Special.Distributed"],
    [level |-> 4, version |-> "1.0", name |-> "RQ.SRS-032.ClickHouse.Parquet.TableEngines.Special.Dictionary"],
    [level |-> 4, version |-> "1.0", name |-> "RQ.SRS-032.ClickHouse.Parquet.TableEngines.Special.File"],
    [level |-> 4, version |-> "1.0", name |-> "RQ.SRS-032.ClickHouse.Parquet.TableEngines.Special.URL"],
    [level |-> 2, version |-> "", name |-> "Metadata"],
    [level |-> 3, version |-> "", name |-> "ParquetFormat"],
    [level |-> 4, version |-> "1.0", name |-> "RQ.SRS-032.ClickHouse.Parquet.Metadata.ParquetMetadataFormat"] >>

\* body headings (lines 5829-5975)
Body12 ==
  << [level |-> 4, version |-> "1.0", name |-> "RQ.SRS-032.ClickHouse.Parquet.Metadata.ParquetMetadataFormat.Output"],
    [level |-> 4, version |-> "1.0", name |-> "RQ.SRS-032.ClickHouse.Parquet.Metadata.ParquetMetadata.Content"] >>

\* body headings (lines 5976-6121)
Body13 ==
  << [level |-> 4, version |-> "1.0", name |-> "RQ.SRS-032.ClickHouse.Parquet.Metadata.ParquetMetadata.MinMax"],
    [level |-> 3, version |-> "", name |-> "Metadata Types"],
    [level |-> 4, version |-> "1.0", name |-> "RQ.SRS-032.ClickHouse.Parquet.Metadata.File"],
    [level |-> 4, version |-> "1.0", name |-> "RQ.SRS-032.ClickHouse.Parquet.Metadata.Column"],
    [level |-> 4, version |-> "1.0", name |-> "RQ.SRS-032.ClickHouse.Parquet.Metadata.Header"],
    [level |-> 2, version |-> "", name |-> "Error Recovery"],
    [level |-> 3, version |-> "1.0", name |-> "RQ.SRS-032.ClickHouse.Parquet.ErrorRecovery.Corrupt.Metadata.MagicNumber"],
    [level |-> 3, version |-> "1.0", name |-> "RQ.SRS-032.ClickHouse.Parquet.ErrorRecovery.Corrupt.Metadata.File"],
    [level |-> 3, version |-> "1.0", name |-> "RQ.SRS-032.ClickHouse.Parquet.ErrorRecovery.Corrupt.Metadata.Column"],
    [level |-> 3, version |-> "1.0", name |-> "RQ.SRS-032.ClickHouse.Parquet.ErrorRecovery.Corrupt.Metadata.PageHeader"],
    [level |-> 3, version |-> "1.0", name |-> "RQ.SRS-032.ClickHouse.Parquet.ErrorRecovery.Corrupt.Metadata.PageData"],
    [level |-> 3, version |-> "1.0", name |-> "RQ.SRS-032.ClickHouse.Parquet.ErrorRecovery.Corrupt.Metadata.Checksum"],
    [level |-> 3, version |-> "1.0", name |-> "RQ.SRS-032.ClickHouse.Parquet.ErrorRecovery.Corrupt.Values"],
    [level |-> 4, version |-> "1.0", name |-> "RQ.SRS-032.ClickHouse.Parquet.ErrorRecovery.Corrupt.Values.Date"],
    [level |-> 4, version |-> "1.0", name |-> "RQ.SRS-032.ClickHouse.Parquet.ErrorRecovery.Corrupt.Values.Int"],
    [level |-> 4, version |-> "1.0", name |-> "RQ.SRS-032.ClickHouse.Parquet.ErrorRecovery.Corrupt.Values.BigInt"],
    [level |-> 4, version |-> "1.0", name |-> "RQ.SRS-032.ClickHouse.Parquet.ErrorRecovery.Corrupt.Values.SmallInt"],
    [level |-> 4, version |-> "1.0", name |-> "RQ.SRS-032.ClickHouse.Parquet.ErrorRecovery.Corrupt.Values.TinyInt"],
    [level |-> 4, version |-> "1.0", name |-> "RQ.SRS-032.ClickHouse.Parquet.ErrorRecovery.Corrupt.Values.UInt"],
    [level |-> 4, version |-> "1.0", name |-> "RQ.SRS-032.ClickHouse.Parquet.ErrorRecovery.Corrupt.Values.UBigInt"],
    [level |-> 4, version |-> "1.0", name |-> "RQ.SRS-032.ClickHouse.Parquet.ErrorRecovery.Corrupt.Values.USmallInt"],
    [level |-> 4, version |-> "1.0", name |-> "RQ.SRS-032.ClickHouse.Parquet.ErrorRecovery.Corrupt.Values.UTinyInt"],
    [level |-> 4, version |-> "1.0", name |-> "RQ.SRS-032.ClickHouse.Parquet.ErrorRecovery.Corrupt.Values.TimestampUS"],
    [level |-> 4, version |-> "1.0", name |-> "RQ.SRS-032.ClickHouse.Parquet.ErrorRecovery.Corrupt.Values.TimestampMS"],
    [level |-> 4, version |-> "1.0", name |-> "RQ.SRS-032.ClickHouse.Parquet.ErrorRecovery.Corrupt.Values.Bool"],
    [level |-> 4, version |-> "1.0", name |-> "RQ.SRS-032.ClickHouse.Parquet.ErrorRecovery.Corrupt.Values.Float"] >>

\* body headings (lines 6122-6184)
Body14 ==
  << [level |-> 4, version |-> "1.0", name |-> "RQ.SRS-032.ClickHouse.Parquet.ErrorRecovery.Corrupt.Values.Double"],
    [level |-> 4, version |-> "1.0", name |-> "RQ.SRS-032.ClickHouse.Parquet.ErrorRecovery.Corrupt.Values.TimeMS"],
    [level |-> 4, version |-> "1.0", name |-> "RQ.SRS-032.ClickHouse.Parquet.ErrorRecovery.Corrupt.Values.TimeUS"],
    [level |-> 4, version |-> "1.0", name |-> "RQ.SRS-032.ClickHouse.Parquet.ErrorRecovery.Corrupt.Values.TimeNS"],
    [level |-> 4, version |-> "1.0", name |-> "RQ.SRS-032.ClickHouse.Parquet.ErrorRecovery.Corrupt.Values.String"],
    [level |-> 4, version |-> "1.0", name |-> "RQ.SRS-032.ClickHouse.Parquet.ErrorRecovery.Corrupt.Values.Binary"],
    [level |-> 4, version |-> "1.0", name |-> "RQ.SRS-032.ClickHouse.Parquet.ErrorRecovery.Corrupt.Values.FixedLengthByteArray"],
    [level |-> 4, version |-> "1.0", name |-> "RQ.SRS-032.ClickHouse.Parquet.ErrorRecovery.Corrupt.Values.Decimal"],
    [level |-> 4, version |-> "1.0", name |-> "RQ.SRS-032.ClickHouse.Parquet.ErrorRecovery.Corrupt.Values.List"],
    [level |-> 4, version |-> "1.0", name |-> "RQ.SRS-032.ClickHouse.Parquet.ErrorRecovery.Corrupt.Values.Struct"],
    [level |-> 4, version |-> "1.0", name |-> "RQ.SRS-032.ClickHouse.Parquet.ErrorRecovery.Corrupt.Values.Map"] >>
-----------------------------------------------------------------------------

RequirementList ==
    Requirements01 \o Requirements02 \o Requirements03 \o Requirements04
    \o Requirements05 \o Requirements06 \o Requirements07 \o Requirements08
    \o Requirements09 \o Requirements10 \o Requirements11 \o Requirements12
    \o Requirements13 \o Requirements14 \o Requirements15 \o Requirements16
    \o Requirements17 \o Requirements18 \o Requirements19 \o Requirements20
    \o Requirements21 \o Requirements22 \o Requirements23
Headings ==
    Headings01 \o Headings02 \o Headings03 \o Headings04 \o Headings05
    \o Headings06
ListedList == Listed01
Toc == Toc01 \o Toc02
Body ==
    Body01 \o Body02 \o Body03 \o Body04 \o Body05 \o Body06 \o Body07
    \o Body08 \o Body09 \o Body10 \o Body11 \o Body12 \o Body13 \o Body14

=============================================================================
