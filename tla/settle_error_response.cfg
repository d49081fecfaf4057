SPECIFICATION FairSpec
PROPERTY ErrorResponseCloses
