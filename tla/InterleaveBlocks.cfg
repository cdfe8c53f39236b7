SPECIFICATION Spec
CONSTANTS
  Jobs <- MCJobs
  Images <- MCImages
  ImageOf <- MCImageOf
  Interval = 2
  BufferSize = 3
PROPERTIES
  AllDelivered
