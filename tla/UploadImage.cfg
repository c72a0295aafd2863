SPECIFICATION UploadSpec
CONSTANT UploadRequest = {r1}
INVARIANT PicturesOutliveTheirSave
