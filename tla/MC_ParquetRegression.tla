------------------------ MODULE MC_ParquetRegression ------------------------
(* The seven parallel features of regression() in submission order (five *)
(* queue behind the two workers of Pool(2)), and storages lists of one and *)
(* two storages.                                                          *)
EXTENDS ParquetRegression

CONSTANTS file, query, int_list_multiple_chunks, url, mysql, postgresql, remote

MCFeatures ==
    <<file, query, int_list_multiple_chunks, url, mysql, postgresql, remote>>

MCStorageLists ==
    {NoStorages}
    \cup {<<s>> : s \in {AwsS3, Minio, Gcs, OtherStorage}}
    \cup {<<s, t>> : s, t \in {AwsS3, Minio}}
=============================================================================
