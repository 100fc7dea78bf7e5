SPECIFICATION FairSampling
CONSTANTS
  DEFAULT_AVERAGE = 1
  BUCKET_SIZE = 2
  Samples = {0, 1, 3}
  Averages = {0, 1, 2, 3}
  MaxCount = 4
INVARIANTS BufferTypeOK SamplesFit
PROPERTIES MeanOfBlock BlockIsPublished
