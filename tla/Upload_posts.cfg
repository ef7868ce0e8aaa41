\* Two overlapping posts of up to two files, three files in all; the bounds end every run.
SPECIFICATION Spec
CONSTANTS
    Requests = {r1, r2}
    Names = {n1, n2}
    MaxFiles = 2
    MaxUploads = 3
SYMMETRY Symmetry
INVARIANTS TypeOK PicturesAreStored ThumbnailsMissOnlyByStatus RejectedLeaveNoRows LeaksOnlyFromFailures
PROPERTIES ImplementsGallery
CHECK_DEADLOCK FALSE
