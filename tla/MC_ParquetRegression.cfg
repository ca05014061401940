CONSTANTS
    file = file
    query = query
    int_list_multiple_chunks = int_list_multiple_chunks
    url = url
    mysql = mysql
    postgresql = postgresql
    remote = remote
    Features <- MCFeatures
    PoolSize = 2
    StorageChoices <- MCStorageLists
    NoStorages = NoStorages
    AwsS3 = AwsS3
    Minio = Minio
    Gcs = Gcs
    OtherStorage = OtherStorage
    AwsUri = AwsUri
    MinioUri = MinioUri
    NoUri = NoUri

SPECIFICATION Spec

INVARIANT TypeOK
INVARIANT ResultExplained


CHECK_DEADLOCK FALSE
