\* Two storages: the s3 feature should run for each of them.
CONSTANTS
    file = file
    query = query
    int_list_multiple_chunks = int_list_multiple_chunks
    url = url
    mysql = mysql
    postgresql = postgresql
    remote = remote
    Features <- MCFeatures
    PoolSize = 2
    StorageChoices <- MCStorageLists
    NoStorages = NoStorages
    AwsS3 = AwsS3
    Minio = Minio
    Gcs = Gcs
    OtherStorage = OtherStorage
    AwsUri = AwsUri
    MinioUri = MinioUri
    NoUri = NoUri

SPECIFICATION Spec

INVARIANT EveryStorageTested

CHECK_DEADLOCK FALSE
